---- MODULE Spec2Model ----
(***************************************************************************)
(* Model of the tool-calling conversation loop of the Mistral integration  *)
(* (mistral_conversation/entity.py): one orchestration call of             *)
(* MistralBaseLLMEntity._async_handle_chat_log together with the message   *)
(* codec (_build_messages), the tool-id reconciler                         *)
(* (_normalize_outgoing_tool_id) and the stream decoder                    *)
(* (_transform_stream).  The remote model, the tool executors and the      *)
(* random sources are the environment.                                     *)
(***************************************************************************)
EXTENDS Integers, Sequences, FiniteSets, TLC

(***************************************************************************)
(* Bounds of the model and program constants.                              *)
(***************************************************************************)
\* const.py: MAX_TOOL_ITERATIONS = 10
MAX_TOOL_ITERATIONS == 10
\* _MISTRAL_ID_RE: exactly nine characters
MISTRAL_ID_LEN == 9
\* largest number of tool calls the remote model puts into one turn
MaxCalls == 2
\* number of turns of one call whose shape the remote model chooses freely;
\* every other turn is a plain one (PlainTurns)
MaxVaried == 1

(***************************************************************************)
(* Identifiers.  Python's None is the value None; ids are strings.         *)
(***************************************************************************)
None == "<None>"
\* caller-side ids found in the history handed in by the host
ValidCallerId == "abcdefghi"
HyphenCallerId == "call-0001"
LongCallerId == "01JCALLERSIDEULID"
\* strings of the model that contain a character outside [A-Za-z0-9]
NonAlnum == {HyphenCallerId, None}

\* _MISTRAL_ID_RE.match(s): ^[A-Za-z0-9]{9}$
MistralIdRe(s) == Len(s) = MISTRAL_ID_LEN /\ s \notin NonAlnum

\* the n-th new value of _gen_mistral_id (9 alphanumeric characters)
GenId(n) == "Gen0000" \o ToString(10 + n)

\* the n-th value of secrets.token_hex(8) (16 hexadecimal digits)
TokenHex(n) == "a3f1c2d4e5b607" \o ToString(10 + n)
\* the n-th well-formed id issued by the remote API
RemoteId(n) == "Rmt0000" \o ToString(10 + n)

(***************************************************************************)
(* Chat history entries (conversation.Content), uniform record shape.      *)
(***************************************************************************)
EmptyArgs == [k \in {} |-> ""]
NoResult == [key |-> "", val |-> ""]

ToolInput(id, name, args) == [id |-> id, tool_name |-> name, tool_args |-> args]

PlainContent(role, text) ==
  [role |-> role, content |-> text, tool_calls |-> <<>>,
   tool_call_id |-> None, tool_name |-> "", tool_result |-> NoResult]

AssistantContent(text, calls) ==
  [role |-> "assistant", content |-> text, tool_calls |-> calls,
   tool_call_id |-> None, tool_name |-> "", tool_result |-> NoResult]

ToolResultContent(id, name, result) ==
  [role |-> "tool_result", content |-> "", tool_calls |-> <<>>,
   tool_call_id |-> id, tool_name |-> name, tool_result |-> result]

\* Python truthiness of a str | None
Truthy(s) == s # None /\ s # ""

(***************************************************************************)
(* Tool-ID reconciler: _normalize_outgoing_tool_id.  The id map is a       *)
(* function from caller ids to remote ids; tape is the sequence of values  *)
(* the random source will produce.                                         *)
(***************************************************************************)
EmptyMap == [k \in {} |-> ""]
MapPut(map, k, v) == [x \in (DOMAIN map) \cup {k} |-> IF x = k THEN v ELSE map[x]]
MapValues(map) == {map[k] : k \in DOMAIN map}

\* a draw of _gen_mistral_id that hits no id in use: the first GenId that
\* is no value of the map
NewGenId(map) ==
  GenId(CHOOSE n \in 0..Cardinality(DOMAIN map) :
          /\ GenId(n) \notin MapValues(map)
          /\ \A m \in 0..(n - 1) : GenId(m) \in MapValues(map))

\* a generation that accepts the first draw without the collision check
GenMistralIdUnchecked(map, tape) ==
  IF tape = <<>> THEN [id |-> NewGenId(map), tape |-> <<>>]
  ELSE [id |-> Head(tape), tape |-> Tail(tape)]

\* new_id = _gen_mistral_id(); while new_id in id_map.values(): draw again.
\* The random source produces the values of tape first and new ids after.
RECURSIVE GenMistralId(_, _)
GenMistralId(map, tape) ==
  IF tape = <<>> THEN [id |-> NewGenId(map), tape |-> <<>>]
  ELSE IF Head(tape) \in MapValues(map) THEN GenMistralId(map, Tail(tape))
  ELSE [id |-> Head(tape), tape |-> Tail(tape)]

\* a normalization that does not look the caller id up in the map
NormalizeAlwaysFresh(orig_id, map, tape) ==
  LET o == IF orig_id = None THEN "" ELSE orig_id
      g == GenMistralId(map, tape)
  IN IF MistralIdRe(o) THEN [id |-> o, map |-> map, tape |-> tape]
     ELSE [id |-> g.id, map |-> MapPut(map, o, g.id), tape |-> g.tape]

NormalizeOutgoingToolId(orig_id, map, tape) ==
  LET o == IF orig_id = None THEN "" ELSE orig_id
      g == GenMistralId(map, tape)
  IN IF MistralIdRe(o) THEN [id |-> o, map |-> map, tape |-> tape]
     ELSE IF o \in DOMAIN map THEN [id |-> map[o], map |-> map, tape |-> tape]
     ELSE [id |-> g.id, map |-> MapPut(map, o, g.id), tape |-> g.tape]

(***************************************************************************)
(* Message codec: _convert_chat_content and _build_messages.               *)
(***************************************************************************)
\* a value json.dumps has no encoder for (a datetime, a set, an object)
NonJsonValue == "<datetime>"

\* json.dumps of a tool result or an argument mapping, as wire text; it
\* raises TypeError for a result that holds a value without an encoder
JsonDumps(v) == [json |-> v]
JsonEncodable(chat_content) ==
  \A i \in 1..Len(chat_content) : chat_content[i].tool_result.val # NonJsonValue

WireMessage(role, text, calls, id, name) ==
  [role |-> role, content |-> text, tool_calls |-> calls,
   tool_call_id |-> id, name |-> name]

\* the list comprehension over content.tool_calls
RECURSIVE ConvertToolCalls(_, _, _)
ConvertToolCalls(calls, map, tape) ==
  IF calls = <<>> THEN [calls |-> <<>>, map |-> map, tape |-> tape]
  ELSE LET n == NormalizeOutgoingToolId(Head(calls).id, map, tape)
           rest == ConvertToolCalls(Tail(calls), n.map, n.tape)
       IN [calls |-> <<[id |-> n.id, type |-> "function",
                        name |-> Head(calls).tool_name,
                        arguments |-> JsonDumps(Head(calls).tool_args)]>> \o rest.calls,
           map |-> rest.map, tape |-> rest.tape]

ConvertChatContent(content, map, tape) ==
  IF content.role = "tool_result" THEN
    LET n == NormalizeOutgoingToolId(content.tool_call_id, map, tape)
    IN [msgs |-> <<WireMessage("tool", JsonDumps(content.tool_result), <<>>,
                               n.id, content.tool_name)>>,
        map |-> n.map, tape |-> n.tape]
  ELSE IF content.role = "assistant" THEN
    LET c == ConvertToolCalls(content.tool_calls, map, tape)
    IN [msgs |-> <<WireMessage("assistant",
                               IF Truthy(content.content) THEN content.content ELSE None,
                               c.calls, None, "")>>,
        map |-> c.map, tape |-> c.tape]
  ELSE [msgs |-> IF Truthy(content.content)
                 THEN <<WireMessage(content.role, content.content, <<>>, None, "")>>
                 ELSE <<>>,
        map |-> map, tape |-> tape]

\* the intermediate results of the recursive operators below are bound as
\* values, by CHOOSE over a one-element set, so that each is computed once
RECURSIVE BuildMessages(_, _, _)
BuildMessages(chat_content, map, tape) ==
  IF chat_content = <<>> THEN [msgs |-> <<>>, map |-> map, tape |-> tape]
  ELSE CHOOSE r \in
         {[BuildMessages(Tail(chat_content), c.map, c.tape) EXCEPT !.msgs = c.msgs \o @] :
            c \in {ConvertChatContent(Head(chat_content), map, tape)}} : TRUE

(***************************************************************************)
(* JSON text of tool-call arguments: json.loads as a table over the        *)
(* argument texts of the model; any other text fails to parse.             *)
(***************************************************************************)
PlayArgsJson ==
  "{\"media_id\":\"m1\",\"media_type\":\"track\",\"entity_id\":\"media_player.kitchen\",\"volume\":11}"
SearchArgsJson ==
  "{\"name\":\"x\",\"limit\":5,\"config_entry_id\":\"other\",\"radio_mode\":\"on\"}"

JsonObjects ==
  ("{}" :> EmptyArgs) @@
  ("{\"a\":1}" :> [a |-> "1"]) @@
  ("{\"name\":\"x\"}" :> [name |-> "x"]) @@
  (PlayArgsJson :>
     [media_id |-> "m1", media_type |-> "track", entity_id |-> "media_player.kitchen",
      volume |-> "11"]) @@
  (SearchArgsJson :>
     [name |-> "x", limit |-> "5", config_entry_id |-> "other", radio_mode |-> "on"])

\* a parse failure that hands the text on in place of the empty mapping
JsonLoadsOrText(text) ==
  IF text \in DOMAIN JsonObjects THEN JsonObjects[text] ELSE [raw |-> text]

\* try: args = json.loads(text) / except: args = {}
JsonLoadsOrEmpty(text) ==
  IF text \in DOMAIN JsonObjects THEN JsonObjects[text] ELSE EmptyArgs

(***************************************************************************)
(* Stream decoder: _transform_stream.  A stream is a sequence of chunks,   *)
(* a chunk is [choices], a choice is [delta, finish_reason], a delta is    *)
(* [content, tool_calls] and a tool-call fragment is                       *)
(* [index, id, name, arguments]; an absent key is None (NoIndex for the    *)
(* index), an absent                                                       *)
(* tool_calls list is the empty list.                                      *)
(***************************************************************************)
Fragment(index, id, name, arguments) ==
  [index |-> index, id |-> id, name |-> name, arguments |-> arguments]
Choice(content, frags, finish_reason) ==
  [delta |-> [content |-> content, tool_calls |-> frags], finish_reason |-> finish_reason]
Chunk(choices) == [choices |-> choices]
Delta(content, calls) == [content |-> content, tool_calls |-> calls]

\* a fragment without the index key (tc.get("index", 0))
NoIndex == 0 - 1

EmptyBuffers == [i \in {} |-> [id |-> "", name |-> "", arguments |-> ""]]

\* a merge that overwrites the argument text like the id and the name
MergeFragmentOverwrites(bufs, tc) ==
  LET idx == IF tc.index = NoIndex THEN 0 ELSE tc.index
      old == IF idx \in DOMAIN bufs THEN bufs[idx]
             ELSE [id |-> "", name |-> "", arguments |-> ""]
      new == [id |-> IF Truthy(tc.id) THEN tc.id ELSE old.id,
              name |-> IF Truthy(tc.name) THEN tc.name ELSE old.name,
              arguments |-> IF Truthy(tc.arguments) THEN tc.arguments ELSE old.arguments]
  IN [i \in (DOMAIN bufs) \cup {idx} |-> IF i = idx THEN new ELSE bufs[i]]

\* buf = tool_call_buffers.setdefault(idx, {...}); overwrite id and name,
\* append arguments
MergeFragment(bufs, tc) ==
  LET idx == IF tc.index = NoIndex THEN 0 ELSE tc.index
      old == IF idx \in DOMAIN bufs THEN bufs[idx]
             ELSE [id |-> "", name |-> "", arguments |-> ""]
      new == [id |-> IF Truthy(tc.id) THEN tc.id ELSE old.id,
              name |-> IF Truthy(tc.name) THEN tc.name ELSE old.name,
              arguments |-> IF Truthy(tc.arguments)
                            THEN old.arguments \o tc.arguments ELSE old.arguments]
  IN [i \in (DOMAIN bufs) \cup {idx} |-> IF i = idx THEN new ELSE bufs[i]]

RECURSIVE MergeFragments(_, _)
MergeFragments(bufs, frags) ==
  IF frags = <<>> THEN bufs
  ELSE MergeFragments(MergeFragment(bufs, Head(frags)), Tail(frags))

\* sorted(tool_call_buffers)
RECURSIVE SortedIndices(_)
SortedIndices(S) ==
  IF S = {} THEN <<>>
  ELSE LET m == CHOOSE i \in S : \A j \in S : i <= j
       IN <<m>> \o SortedIndices(S \ {m})

\* secrets.token_hex(8): a token no key of the map equals (a collision of
\* two 64-bit random tokens is not modelled)
FreshToken(map) ==
  TokenHex(CHOOSE n \in 0..Cardinality(DOMAIN map) :
             /\ TokenHex(n) \notin DOMAIN map
             /\ \A m \in 0..(n - 1) : TokenHex(m) \in DOMAIN map)

\* int_id = next((k for k, v in id_map.items() if v == buf["id"]), token_hex(8))
InternalId(map, remote_id) ==
  IF \E k \in DOMAIN map : map[k] = remote_id
  THEN CHOOSE k \in DOMAIN map : map[k] = remote_id
  ELSE FreshToken(map)

\* a completion that does not record the forward mapping
RECURSIVE CompleteToolCallsUnrecorded(_, _, _)
CompleteToolCallsUnrecorded(idxs, bufs, map) ==
  IF idxs = <<>> THEN [inputs |-> <<>>, map |-> map]
  ELSE LET buf == bufs[Head(idxs)]
           rest == CompleteToolCallsUnrecorded(Tail(idxs), bufs, map)
       IN [inputs |-> <<ToolInput(TokenHex(Len(idxs)), buf.name,
                                  JsonLoadsOrEmpty(buf.arguments))>> \o rest.inputs,
           map |-> rest.map]

\* the body of "for idx in sorted(tool_call_buffers)"
RECURSIVE CompleteToolCalls(_, _, _)
CompleteToolCalls(idxs, bufs, map) ==
  IF idxs = <<>> THEN [inputs |-> <<>>, map |-> map]
  ELSE CHOOSE r \in
         {[CompleteToolCalls(Tail(idxs), bufs, MapPut(map, int_id, buf.id))
             EXCEPT !.inputs = <<ToolInput(int_id, buf.name,
                                           JsonLoadsOrEmpty(buf.arguments))>> \o @] :
            buf \in {bufs[Head(idxs)]}, int_id \in {InternalId(map, bufs[Head(idxs)].id)}} :
         TRUE

\* a finish signal that leaves the buffers as they are
TransformChoiceKeepsBuffers(choice, bufs, map) ==
  LET text == IF Truthy(choice.delta.content)
              THEN <<Delta(choice.delta.content, <<>>)>> ELSE <<>>
      bufs1 == MergeFragments(bufs, choice.delta.tool_calls)
      done == CompleteToolCalls(SortedIndices(DOMAIN bufs1), bufs1, map)
  IN IF choice.finish_reason = "tool_calls"
     THEN [deltas |-> text \o <<Delta(None, done.inputs)>>,
           bufs |-> bufs1, map |-> done.map]
     ELSE [deltas |-> text, bufs |-> bufs1, map |-> map]

\* one choice of a chunk: text delta, fragments, finish signal
TransformChoice(choice, bufs, map) ==
  LET text == IF Truthy(choice.delta.content)
              THEN <<Delta(choice.delta.content, <<>>)>> ELSE <<>>
  IN CHOOSE r \in
       {IF choice.finish_reason = "tool_calls"
        THEN CHOOSE q \in
               {[deltas |-> text \o <<Delta(None, done.inputs)>>,
                 bufs |-> EmptyBuffers, map |-> done.map] :
                  done \in {CompleteToolCalls(SortedIndices(DOMAIN bufs1), bufs1, map)}} :
               TRUE
        ELSE [deltas |-> text, bufs |-> bufs1, map |-> map] :
          bufs1 \in {MergeFragments(bufs, choice.delta.tool_calls)}} : TRUE

RECURSIVE TransformChoices(_, _, _)
TransformChoices(choices, bufs, map) ==
  IF choices = <<>> THEN [deltas |-> <<>>, bufs |-> bufs, map |-> map]
  ELSE CHOOSE r \in
         {[TransformChoices(Tail(choices), c.bufs, c.map) EXCEPT !.deltas = c.deltas \o @] :
            c \in {TransformChoice(Head(choices), bufs, map)}} : TRUE

RECURSIVE TransformChunks(_, _, _)
TransformChunks(stream, bufs, map) ==
  IF stream = <<>> THEN [deltas |-> <<>>, bufs |-> bufs, map |-> map]
  ELSE CHOOSE r \in
         {[TransformChunks(Tail(stream), c.bufs, c.map) EXCEPT !.deltas = c.deltas \o @] :
            c \in {TransformChoices(Head(stream).choices, bufs, map)}} : TRUE

TransformStream(stream, map) == TransformChunks(stream, EmptyBuffers, map)

\* the streaming branch of the loop: accumulate text and tool calls
RECURSIVE AccumulateText(_)
AccumulateText(deltas) ==
  IF deltas = <<>> THEN ""
  ELSE (IF Truthy(Head(deltas).content) THEN Head(deltas).content ELSE "")
       \o AccumulateText(Tail(deltas))

RECURSIVE AccumulateToolCalls(_)
AccumulateToolCalls(deltas) ==
  IF deltas = <<>> THEN <<>>
  ELSE Head(deltas).tool_calls \o AccumulateToolCalls(Tail(deltas))

(***************************************************************************)
(* State of one orchestration call (_async_handle_chat_log).               *)
(***************************************************************************)
VARIABLES
  use_streaming,      \* the use_streaming parameter
  llm_api,            \* chat_log.llm_api offers async_call_tool
  history,            \* chat_log.content
  base,               \* length of the history handed in by the host
  id_map,             \* id_map
  pc,                 \* position of the coroutine
  iteration,          \* iterations of the for loop started so far
  sends,              \* requests issued (client.chat / client.chat_stream)
  messages,           \* payload["messages"] of the latest request
  assistant_content,  \* assistant_content
  music_tools,        \* music_tools of the current iteration
  standard_tools,     \* standard_tools of the current iteration
  k,                  \* index of the tool call being executed
  returned,           \* the value returned, once pc = "done"
  raised,             \* the exception that left the call, once pc = "raised"
  executed,           \* log of the executor invocations
  completed,          \* log of the tool calls completed by the stream decoder
  issued,             \* well-formed ids issued by the remote API so far
  varied,             \* freely shaped turns so far
  turn_varied,        \* the current turn is a freely shaped one
  status,             \* HTTP status of the latest response (0: none yet)
  msg,                \* msg of the blocking branch
  conn,               \* the connection of http_client.stream(...)
  seen,               \* lines of the current response read by aiter_lines
  received,           \* lines read in the whole call
  chunks,             \* chunks yielded by _stream for the current response
  tool_call_buffers,  \* tool_call_buffers of _transform_stream
  deltas,             \* deltas yielded by _transform_stream so far
  flow_errors,        \* errors["base"] of the config flow's user step
  entry_state,        \* state of the config entry
  runtime_data,       \* entry.runtime_data
  setup_log,          \* log of the credential checks
  options,            \* subentry.data (self._options())
  host_tools,         \* names of chat_log.llm_api.tools
  structure,          \* task.structure of the AI task
  task_result,        \* outcome of _async_generate_data
  payload             \* payload of the latest request

loop_vars == <<use_streaming, llm_api, history, base, id_map, pc, iteration, sends,
               messages, assistant_content, music_tools, standard_tools, k, returned,
               raised, executed, completed, issued, varied, turn_varied>>
stream_vars == <<conn, seen, received, chunks, tool_call_buffers, deltas>>
setup_vars == <<flow_errors, entry_state, runtime_data, setup_log>>
task_vars == <<options, host_tools, structure, task_result>>

vars == <<loop_vars, status, msg, stream_vars, setup_vars, task_vars, payload>>

\* the value of a name not bound yet (Python None)
NoAssistant ==
  [role |-> "none", content |-> None, tool_calls |-> <<>>,
   tool_call_id |-> None, tool_name |-> "", tool_result |-> NoResult]

\* the fallback turn built after the loop
FallbackContent ==
  AssistantContent("Entschuldigung, ich konnte die Anfrage nicht vollstaendig verarbeiten.", <<>>)

\* a truthiness that takes a turn without text and without tool calls for
\* false
ContentTruthyByText(ac) ==
  ac # NoAssistant /\ (Truthy(ac.content) \/ ac.tool_calls # <<>>)

\* Python truthiness of assistant_content: None is false, an
\* AssistantContent object (a dataclass without __bool__/__len__) is true
ContentTruthy(ac) == ac # NoAssistant

(***************************************************************************)
(* Tool names.  startswith("music_assistant") and split(".")[1] as tables  *)
(* over the tool names of the model.                                       *)
(***************************************************************************)
MusicSearch == "music_assistant.search"
MusicPlayMedia == "music_assistant.play_media"
LightTurnOn == "light.turn_on"
MusicGetLibrary == "music_assistant.get_library"
MusicBare == "music_assistant"
ToolNames == {MusicSearch, MusicPlayMedia, LightTurnOn}

\* a partition that takes no call for a music call
StartsWithNothing(name) == FALSE

\* tool.tool_name.startswith("music_assistant")
StartsWithMusicAssistant(name) ==
  name \in {MusicSearch, MusicPlayMedia, MusicGetLibrary, MusicBare}
IsStandardName(name) == ~StartsWithMusicAssistant(name)

MusicOf(calls) == SelectSeq(calls, LAMBDA t : StartsWithMusicAssistant(t.tool_name))
StandardOf(calls) == SelectSeq(calls, LAMBDA t : IsStandardName(t.tool_name))

(***************************************************************************)
(* Configuration of one call: the options of the subentry (an option the   *)
(* user has not set is None, options.get gives the default), and the tools *)
(* list of the payload, a descriptor per tool.                             *)
(***************************************************************************)
Options(model, player, entry) ==
  [chat_model |-> model, default_media_player |-> player,
   music_assistant_config_entry |-> entry]

OptionsGet(v, default) == IF v = None THEN default ELSE v

RECOMMENDED_CHAT_MODEL == "mistral-large-latest"
\* a model of the reasoning-capable family
ReasoningModel == "magistral-medium-latest"
\* the defaults imported from const.py
DEFAULT_VOICE_BOX == "media_player.voice_box"
DEFAULT_MUSIC_ASSISTANT_CONFIG_ENTRY == None

VOICE_BOX == OptionsGet(options.default_media_player, DEFAULT_VOICE_BOX)
CURRENT_MODEL == OptionsGet(options.chat_model, RECOMMENDED_CHAT_MODEL)
\* ma_config_entry_id = self._get_music_assistant_config_entry_id(hass)
MaConfigEntryId ==
  OptionsGet(options.music_assistant_config_entry, DEFAULT_MUSIC_ASSISTANT_CONFIG_ENTRY)

\* _format_tool: the descriptor of a host tool carries the tool's name
FormatTool(name) == [type |-> "function", name |-> name]

\* the two descriptors of tools.extend([...])
StaticMusicTools == <<FormatTool(MusicSearch), FormatTool(MusicPlayMedia)>>

\* a tools list that gets the static descriptors whatever the host exposes
ToolsListAlwaysExtends(api, tools) ==
  [j \in 1..(IF api THEN Len(tools) ELSE 0) |-> FormatTool(tools[j])]
  \o StaticMusicTools

\* tools = [...] of one iteration: the host's tools, then the static music
\* descriptors unless the host exposes one of their names
ToolsList(api, tools) ==
  [j \in 1..(IF api THEN Len(tools) ELSE 0) |-> FormatTool(tools[j])]
  \o (IF {MusicSearch, MusicPlayMedia}
          \cap (IF api THEN {tools[j] : j \in 1..Len(tools)} ELSE {}) = {}
      THEN StaticMusicTools ELSE <<>>)

\* no request yet
NoPayload == [model |-> None, messages |-> <<>>, tools |-> <<>>, stream |-> FALSE]

(***************************************************************************)
(* The music branch: service name, argument filter and target of one call. *)
(***************************************************************************)
\* tool.tool_name.split(".")[1]; None: IndexError, the name has no dot
ServiceOf(name) ==
  IF name = MusicSearch THEN "search"
  ELSE IF name = MusicPlayMedia THEN "play_media"
  ELSE IF name = MusicGetLibrary THEN "get_library"
  ELSE None

\* {k: v for k, v in args.items() if k in keys}
Restrict(args, keys) == [x \in DOMAIN args \cap keys |-> args[x]]

\* the service data handed on without a filter
ServiceArgsUnfiltered(service, tool_args, ma) ==
  Restrict(tool_args, DOMAIN tool_args \ {"entity_id"})

\* args of hass.services.async_call: entity_id popped, config_entry_id set
\* for search and get_library when there is one, then the allow-list
ServiceArgs(service, tool_args, ma) ==
  LET popped == Restrict(tool_args, DOMAIN tool_args \ {"entity_id"})
      args == IF Truthy(ma) /\ service \in {"search", "get_library"}
              THEN ("config_entry_id" :> ma) @@ popped
              ELSE popped
      entry == IF Truthy(ma) THEN {"config_entry_id"} ELSE {}
  IN IF service = "play_media" THEN Restrict(args, {"media_id", "media_type"})
     ELSE IF service = "search"
     THEN Restrict(args, {"name", "limit", "media_type", "artist"} \cup entry)
     ELSE IF service = "get_library"
     THEN Restrict(args, {"media_type", "limit", "offset", "order_by"} \cup entry)
     ELSE args

\* target={"entity_id": eid} of play_media; the other services get none
ServiceTarget(service, tool_args, voice_box) ==
  IF service # "play_media" THEN None
  ELSE IF "entity_id" \in DOMAIN tool_args THEN tool_args["entity_id"]
  ELSE voice_box

(***************************************************************************)
(* Server-sent events: MistralClient.chat_stream._stream.  A line is a     *)
(* string; json.loads is a table over the payload texts of the model, any  *)
(* other text fails to parse.                                              *)
(***************************************************************************)
\* str.strip(), for the blank
RECURSIVE LStrip(_)
LStrip(s) == IF s # "" /\ Head(s) = " " THEN LStrip(Tail(s)) ELSE s
RECURSIVE RStrip(_)
RStrip(s) ==
  IF s # "" /\ SubSeq(s, Len(s), Len(s)) = " " THEN RStrip(SubSeq(s, 1, Len(s) - 1)) ELSE s
Strip(s) == RStrip(LStrip(s))

\* str.startswith
StartsWith(s, prefix) == Len(s) >= Len(prefix) /\ SubSeq(s, 1, Len(prefix)) = prefix

DataPrefix == "data: "
DoneSentinel == "[DONE]"
\* line[6:]
DATA_OFFSET == 6
DataOf(line) == SubSeq(line, DATA_OFFSET + 1, Len(line))

\* payload texts: a text delta, tool-call fragments, the finish signal,
\* another finish reason, and a JSON value that is not an object
TextJson == "{\"choices\":[{\"delta\":{\"content\":\"Hi\"}}]}"
Frag0aJson ==
  "{\"choices\":[{\"delta\":{\"tool_calls\":[{\"index\":0,\"id\":\"Rmt000010\",\"function\":{\"name\":\"light.turn_on\",\"arguments\":\"{\\\"a\\\":1\"}}]}}]}"
Frag0bJson ==
  "{\"choices\":[{\"delta\":{\"tool_calls\":[{\"index\":0,\"id\":\"Rmt000012\",\"function\":{\"arguments\":\"}\"}}]}}]}"
Frag1Json ==
  "{\"choices\":[{\"delta\":{\"tool_calls\":[{\"index\":1,\"id\":\"Rmt000011\",\"function\":{\"name\":\"light.turn_on\",\"arguments\":\"{}\"}}]}}]}"
FinishJson == "{\"choices\":[{\"delta\":{},\"finish_reason\":\"tool_calls\"}]}"
StopJson == "{\"choices\":[{\"delta\":{},\"finish_reason\":\"stop\"}]}"
ScalarJson == "3"
MalformedJson == "{\"choices\":[{\"delta\""

ScalarValue == [scalar |-> ScalarJson]

ChunkJson ==
  (TextJson :> Chunk(<<Choice("Hi", <<>>, None)>>)) @@
  (Frag0aJson :> Chunk(<<Choice(None, <<Fragment(0, RemoteId(0), LightTurnOn, "{\"a\":1")>>,
                                None)>>)) @@
  (Frag0bJson :> Chunk(<<Choice(None, <<Fragment(0, RemoteId(2), None, "}")>>, None)>>)) @@
  (Frag1Json :> Chunk(<<Choice(None, <<Fragment(1, RemoteId(1), LightTurnOn, "{}")>>, None)>>)) @@
  (FinishJson :> Chunk(<<Choice(None, <<>>, "tool_calls")>>)) @@
  (StopJson :> Chunk(<<Choice(None, <<>>, "stop")>>)) @@
  (ScalarJson :> ScalarValue)

\* a decoder that ends the sequence at an event whose JSON is malformed
DecodeLineMalformedEnds(raw) ==
  LET line == Strip(raw)
  IN IF line = "" THEN [kind |-> "skip", chunk |-> ScalarValue]
     ELSE IF ~StartsWith(line, DataPrefix) THEN [kind |-> "skip", chunk |-> ScalarValue]
     ELSE IF DataOf(line) \in DOMAIN ChunkJson
     THEN [kind |-> "chunk", chunk |-> ChunkJson[DataOf(line)]]
     ELSE [kind |-> "done", chunk |-> ScalarValue]

\* one pass of the body of "async for line in response.aiter_lines()":
\* skip (continue), done (break), chunk (yield chunk)
DecodeLine(raw) ==
  LET line == Strip(raw)
  IN IF line = "" THEN [kind |-> "skip", chunk |-> ScalarValue]
     ELSE IF ~StartsWith(line, DataPrefix) THEN [kind |-> "skip", chunk |-> ScalarValue]
     ELSE IF DataOf(line) = DoneSentinel THEN [kind |-> "done", chunk |-> ScalarValue]
     ELSE IF DataOf(line) \in DOMAIN ChunkJson
     THEN [kind |-> "chunk", chunk |-> ChunkJson[DataOf(line)]]
     ELSE [kind |-> "skip", chunk |-> ScalarValue]

\* chunk.get("choices", []) needs a JSON object
IsChunkObject(chunk) == "choices" \in DOMAIN chunk

(***************************************************************************)
(* The environment: histories handed in by the host, turns of the remote   *)
(* model, errors of the transport and of the executors.                    *)
(***************************************************************************)
UserHistory == <<PlainContent("user", "turn on the lamp")>>

\* a history with one earlier tool exchange under the caller ids c1, c2
ExchangeHistory(c1, c2) ==
  <<PlainContent("user", "lights?"),
    AssistantContent("", <<ToolInput(c1, LightTurnOn, EmptyArgs),
                           ToolInput(c2, LightTurnOn, EmptyArgs)>>),
    ToolResultContent(c1, LightTurnOn, [key |-> "status", val |-> "success"]),
    ToolResultContent(c2, LightTurnOn, [key |-> "status", val |-> "success"]),
    PlainContent("user", "turn on the lamp")>>

Turn(text, calls, finish) == [text |-> text, calls |-> calls, finish |-> finish]
WireCall(name, id, arguments) == [name |-> name, id |-> id, arguments |-> arguments]

\* the id of a wire call that the remote API issues anew: the call gets the
\* next well-formed id when the response arrives
NewId == "<new>"

\* turns of up to MaxCalls calls whose names, ids and argument texts come
\* from the given sets
TurnsOf(texts, names, ids, argtexts, finishes) ==
  {Turn(t, c, f) :
     t \in texts,
     c \in UNION {[1..n -> [name : names, id : ids, arguments : argtexts]] :
                    n \in 0..MaxCalls},
     f \in finishes}

\* the plain turns: a final answer, or one call of a host tool under a new
\* well-formed id
PlainTurns ==
  {Turn("Done.", <<>>, "stop"),
   Turn("", <<WireCall(LightTurnOn, NewId, "{}")>>, "tool_calls")}

\* turns of every shape over new well-formed ids
DispatchTurns ==
  TurnsOf({"", "Done."}, ToolNames, {NewId}, {"{}"}, {"tool_calls", "stop"})

\* turns of host tool calls whose ids are new, repeated, empty, absent or
\* not of the remote syntax
IdTurns ==
  PlainTurns \cup
  TurnsOf({""}, {LightTurnOn}, {NewId, RemoteId(0), "", None, HyphenCallerId},
          {"{}"}, {"tool_calls"})

\* the turn as it arrives, after n ids have been issued
Issue(t, n) ==
  [t EXCEPT !.calls =
     [j \in 1..Len(t.calls) |->
        IF t.calls[j].id = NewId
        THEN [t.calls[j] EXCEPT !.id = RemoteId(n + j - 1)]
        ELSE t.calls[j]]]

TransportErrors == {"HTTPStatusError", "TimeoutException", "ConnectError"}

\* the statuses response.raise_for_status() raises on, and the status of a
\* response it lets through
ErrorStatuses == {401, 429, 500}
StatusOk == 200

(***************************************************************************)
(* The wire form of a turn.                                                *)
(***************************************************************************)
\* the chunks of a streamed turn: the text, the tool-call fragments (one
\* per call, index j - 1), the finish signal
StreamOf(t) ==
  (IF t.text # "" THEN <<Chunk(<<Choice(t.text, <<>>, None)>>)>> ELSE <<>>)
  \o (IF t.calls # <<>>
      THEN <<Chunk(<<Choice(None,
                            [j \in 1..Len(t.calls) |->
                               Fragment(j - 1, t.calls[j].id, t.calls[j].name,
                                        t.calls[j].arguments)],
                            None)>>)>>
      ELSE <<>>)
  \o <<Chunk(<<Choice(None, <<>>, t.finish)>>)>>

\* the message of a blocking response; an empty text is content: null
MessageOf(t) ==
  [content |-> IF t.text = "" THEN None ELSE t.text, tool_calls |-> t.calls]

\* the blocking branch: tcs.append(llm.ToolInput(...)) for each wire call
BlockingToolCalls(calls) ==
  [j \in 1..Len(calls) |->
     ToolInput(calls[j].id, calls[j].name, JsonLoadsOrEmpty(calls[j].arguments))]

\* tc["id"] raises KeyError for a wire call without the key
BlockingKeyError(calls) == \E j \in 1..Len(calls) : calls[j].id = None

(***************************************************************************)
(* The loop.                                                               *)
(***************************************************************************)
\* no blocking response yet
NoMessage == [content |-> None, tool_calls |-> <<>>]

\* no streaming request yet
StreamIdle ==
  /\ conn = "none"
  /\ seen = <<>>
  /\ received = 0
  /\ chunks = <<>>
  /\ tool_call_buffers = EmptyBuffers
  /\ deltas = <<>>

\* no config flow and no config entry yet
SetupIdle ==
  /\ flow_errors = ""
  /\ entry_state = "none"
  /\ runtime_data = None
  /\ setup_log = <<>>

\* no AI task result yet
NoTaskResult == [kind |-> "none", data |-> None]

InitLoop(histories, apis) ==
  /\ use_streaming \in BOOLEAN
  /\ llm_api \in apis
  /\ history \in histories
  /\ base = Len(history)
  /\ id_map = EmptyMap
  /\ pc = "loop"
  /\ iteration = 0
  /\ sends = 0
  /\ messages = <<>>
  /\ assistant_content = NoAssistant
  /\ music_tools = <<>>
  /\ standard_tools = <<>>
  /\ k = 0
  /\ returned = NoAssistant
  /\ raised = None
  /\ executed = <<>>
  /\ completed = {}
  /\ issued = 0
  /\ varied = 0
  /\ turn_varied = FALSE
  /\ status = 0
  /\ msg = NoMessage
  /\ StreamIdle
  /\ SetupIdle
  /\ payload = NoPayload
  /\ task_result = NoTaskResult

\* a call of the conversation entity: the options of a subentry created
\* with the recommended settings, the tools of the host's API, no structure
Init(histories, apis) ==
  /\ InitLoop(histories, apis)
  /\ options = Options(None, None, None)
  /\ host_tools = <<LightTurnOn>>
  /\ structure = None

\* the caller ids of a history that the next _build_messages has to map
RECURSIVE HistoryIds(_)
HistoryIds(h) ==
  IF h = <<>> THEN {}
  ELSE (IF Head(h).role = "tool_result" THEN {Head(h).tool_call_id}
        ELSE {Head(h).tool_calls[j].id : j \in 1..Len(Head(h).tool_calls)})
       \cup HistoryIds(Tail(h))

Unmapped(h, map) ==
  {o \in {IF i = None THEN "" ELSE i : i \in HistoryIds(h)} :
     ~MistralIdRe(o) /\ o \notin DOMAIN map}

\* what the random source can produce during one _build_messages: new ids
\* only, or first an id in use already (one the map has issued or recorded,
\* or a well-formed id of the host) and new ids after it
Tapes(h, map) ==
  IF Unmapped(h, map) = {} THEN {<<>>}
  ELSE {<<>>} \cup {<<v>> : v \in {w \in MapValues(map) \cup HistoryIds(h) : MistralIdRe(w)}}

\* full_system_prompt: structure_prompt + instruction, or instruction
SystemMessage ==
  WireMessage("system",
              IF structure = None THEN "instruction" ELSE "schema instruction",
              <<>>, None, "")

\* a loop bound that is off by one
LoopContinuesInclusive(n) == n <= MAX_TOOL_ITERATIONS

\* for iteration in range(MAX_TOOL_ITERATIONS)
LoopContinues(n) == n < MAX_TOOL_ITERATIONS

\* SEND: one more iteration: build the messages and issue the request
Send ==
  /\ pc = "loop"
  /\ LoopContinues(iteration)
  /\ iteration' = iteration + 1
  /\ IF JsonEncodable(history)
     THEN /\ \E tape \in Tapes(history, id_map) :
               \E b \in {BuildMessages(history, id_map, tape)} :
               \E m \in {<<SystemMessage>> \o b.msgs} :
                  /\ messages' = m
                  /\ id_map' = b.map
                  /\ payload' = [model |-> CURRENT_MODEL, messages |-> m,
                                 tools |-> ToolsList(llm_api, host_tools),
                                 stream |-> use_streaming]
          /\ sends' = sends + 1
          /\ pc' = "await"
          /\ raised' = raised
     ELSE \* json.dumps raises in _build_messages
          /\ pc' = "raised"
          /\ raised' = "TypeError"
          /\ UNCHANGED <<messages, id_map, payload, sends>>
  /\ UNCHANGED <<use_streaming, llm_api, history, base, assistant_content,
                 music_tools, standard_tools, k, returned, executed,
                 completed, issued, varied, turn_varied>>
  /\ UNCHANGED <<status, msg, stream_vars, setup_vars, task_vars>>

\* a failing request that the loop catches and follows with the next
\* iteration
RequestFailsRetries ==
  /\ pc = "await"
  /\ varied < MaxVaried
  /\ \E e \in TransportErrors :
       /\ raised' = e
       /\ status' \in (IF e = "HTTPStatusError" THEN ErrorStatuses ELSE {status})
  /\ pc' = "loop"
  /\ varied' = varied + 1
  /\ turn_varied' = TRUE
  /\ UNCHANGED <<use_streaming, llm_api, history, base, id_map, iteration, sends,
                 messages, assistant_content, music_tools, standard_tools, k,
                 returned, executed, completed, issued>>
  /\ UNCHANGED <<msg, stream_vars, setup_vars, task_vars, payload>>

\* the request fails: raise_for_status or the transport raises, and nothing
\* in the loop catches it (a failing request counts as a freely shaped turn)
RequestFails ==
  /\ pc = "await"
  /\ varied < MaxVaried
  /\ \E e \in TransportErrors :
       /\ raised' = e
       /\ status' \in (IF e = "HTTPStatusError" THEN ErrorStatuses ELSE {status})
  /\ pc' = "raised"
  /\ varied' = varied + 1
  /\ turn_varied' = TRUE
  /\ UNCHANGED <<use_streaming, llm_api, history, base, id_map, iteration, sends,
                 messages, assistant_content, music_tools, standard_tools, k,
                 returned, executed, completed, issued>>
  /\ UNCHANGED <<msg, stream_vars, setup_vars, task_vars, payload>>

\* standard tools whose assistant entry takes the place of the last entry
EnterStandardReplaces(h, ac, music, std) ==
  /\ history' = Append(SubSeq(h, 1, Len(h) - 1),
                       AssistantContent(IF music = <<>> THEN ac.content ELSE "", std))
  /\ music_tools' = music
  /\ standard_tools' = std
  /\ IF llm_api
     THEN /\ pc' = "standard"
          /\ k' = 1
          /\ returned' = returned
     ELSE /\ pc' = "done"
          /\ k' = k
          /\ returned' = ac

\* standard tools: append the assistant entry, then execute through
\* llm_api or, without it, return
EnterStandard(h, ac, music, std) ==
  /\ history' = Append(h, AssistantContent(IF music = <<>> THEN ac.content ELSE "", std))
  /\ music_tools' = music
  /\ standard_tools' = std
  /\ IF llm_api
     THEN /\ pc' = "standard"
          /\ k' = 1
          /\ returned' = returned
     ELSE /\ pc' = "done"
          /\ k' = k
          /\ returned' = ac

\* from the decoded turn to the first executor call or to the return
AfterResponse(ac) ==
  LET music == MusicOf(ac.tool_calls)
      std == StandardOf(ac.tool_calls)
  IN /\ assistant_content' = ac
     /\ IF ~ContentTruthy(ac)
        THEN \* break, then the fallback turn
             /\ pc' = "done"
             /\ returned' = FallbackContent
             /\ UNCHANGED <<history, music_tools, standard_tools, k>>
        ELSE IF ac.tool_calls = <<>>
        THEN /\ history' = Append(history, ac)
             /\ returned' = ac
             /\ pc' = "done"
             /\ UNCHANGED <<music_tools, standard_tools, k>>
        ELSE IF music # <<>>
        THEN /\ history' = Append(history, AssistantContent(ac.content, music))
             /\ music_tools' = music
             /\ standard_tools' = std
             /\ k' = 1
             /\ pc' = "music"
             /\ returned' = returned
        ELSE EnterStandard(history, ac, music, std)

\* the budget of freely shaped turns; the plain tool turns of a call come
\* before its freely shaped turns
TurnAllowed(t) ==
  IF t \in PlainTurns THEN varied = 0 \/ t.calls = <<>>
  ELSE varied < MaxVaried

\* AWAIT_RESPONSE, streaming branch
RecvStream(turns) ==
  /\ pc = "await"
  /\ use_streaming
  /\ \E s \in turns :
       \E t \in {Issue(s, issued)} :
       \E ts \in {TransformStream(StreamOf(t), id_map)} :
       \E tool_calls \in {AccumulateToolCalls(ts.deltas)} :
       \E ac \in {AssistantContent(AccumulateText(ts.deltas), tool_calls)} :
          /\ TurnAllowed(s)
          /\ id_map' = ts.map
          /\ AfterResponse(ac)
          /\ completed' = completed \cup
               {[caller |-> tool_calls[j].id,
                 remote |-> IF Truthy(t.calls[j].id) THEN t.calls[j].id ELSE ""] :
                  j \in 1..Len(tool_calls)}
          /\ issued' = issued + Len(t.calls)
          /\ varied' = IF s \in PlainTurns THEN varied ELSE varied + 1
          /\ turn_varied' = (s \notin PlainTurns)
  /\ status' = StatusOk
  /\ UNCHANGED <<use_streaming, llm_api, base, iteration, sends, messages, raised,
                 executed>>
  /\ UNCHANGED <<msg, stream_vars, setup_vars, task_vars, payload>>

\* AWAIT_RESPONSE, blocking branch
RecvBlocking(turns) ==
  /\ pc = "await"
  /\ ~use_streaming
  /\ \E s \in turns :
       LET t == Issue(s, issued)
           m == MessageOf(t)
           ac == AssistantContent(m.content, BlockingToolCalls(m.tool_calls))
       IN /\ TurnAllowed(s)
          /\ t.finish = (IF t.calls = <<>> THEN "stop" ELSE "tool_calls")
          /\ msg' = m
          /\ IF BlockingKeyError(m.tool_calls)
             THEN /\ pc' = "raised"
                  /\ raised' = "KeyError"
                  /\ UNCHANGED <<history, assistant_content, music_tools,
                                 standard_tools, k, returned>>
             ELSE /\ AfterResponse(ac)
                  /\ raised' = raised
          /\ issued' = issued + Len(t.calls)
          /\ varied' = IF s \in PlainTurns THEN varied ELSE varied + 1
          /\ turn_varied' = (s \notin PlainTurns)
  /\ status' = StatusOk
  /\ UNCHANGED <<use_streaming, llm_api, base, id_map, iteration, sends, messages,
                 executed, completed>>
  /\ UNCHANGED <<stream_vars, setup_vars, task_vars, payload>>

\* what an executor does: it returns a response (None: no response) or
\* raises an Exception
ExecOutcomes ==
  {[raises |-> FALSE, value |-> "response"], [raises |-> FALSE, value |-> None],
   [raises |-> TRUE, value |-> "boom"]}

\* the budget of freely shaped turns covers a raising executor
OutcomeAllowed(o) == o.raises => (turn_varied \/ varied < MaxVaried)

ErrorResult(e) == [key |-> "error", val |-> e]
SuccessResult == [key |-> "status", val |-> "success"]

\* what the music service does for one call: without a service name
\* (IndexError) nothing is invoked; the library listing may carry a value
\* json has no encoder for
MusicOutcomes(service) ==
  IF service = None THEN {[raises |-> TRUE, value |-> "list index out of range"]}
  ELSE IF service = "get_library"
  THEN ExecOutcomes \cup {[raises |-> FALSE, value |-> NonJsonValue]}
  ELSE ExecOutcomes

\* res of the music branch: play_media has no response; res or {...}
MusicResult(tool, value) ==
  IF tool.tool_name = MusicPlayMedia THEN SuccessResult
  ELSE IF value = None THEN SuccessResult
  ELSE [key |-> "response", val |-> value]

\* the tool-result entry of one executed call (try / except Exception)
ToolResultOf(tool, o, result) ==
  ToolResultContent(tool.id, tool.tool_name,
                    IF o.raises THEN ErrorResult(o.value) ELSE result)

\* DISPATCH_TOOLS: one music tool call
ExecMusic ==
  /\ pc = "music"
  /\ \E tool \in {music_tools[k]} :
     \E service \in {ServiceOf(tool.tool_name)} :
     \E o \in MusicOutcomes(service) :
     \E h \in {Append(history, ToolResultOf(tool, o, MusicResult(tool, o.value)))} :
          /\ OutcomeAllowed(o)
          /\ executed' =
               IF service = None THEN executed
               ELSE Append(executed,
                           [id |-> tool.id, tool_name |-> tool.tool_name,
                            dest |-> "music_assistant",
                            raises |-> o.raises, turn |-> iteration,
                            service |-> service,
                            args |-> ServiceArgs(service, tool.tool_args,
                                                 MaConfigEntryId),
                            target |-> ServiceTarget(service, tool.tool_args,
                                                     VOICE_BOX)])
          /\ varied' = IF o.raises /\ ~turn_varied THEN varied + 1 ELSE varied
          /\ turn_varied' = (turn_varied \/ o.raises)
          /\ IF k < Len(music_tools)
             THEN /\ history' = h
                  /\ k' = k + 1
                  /\ UNCHANGED <<pc, music_tools, standard_tools, returned>>
             ELSE IF standard_tools # <<>>
             THEN EnterStandard(h, assistant_content, music_tools, standard_tools)
             ELSE \* continue
                  /\ history' = h
                  /\ pc' = "loop"
                  /\ UNCHANGED <<k, music_tools, standard_tools, returned>>
  /\ UNCHANGED <<use_streaming, llm_api, base, id_map, iteration, sends, messages,
                 assistant_content, raised, completed, issued>>
  /\ UNCHANGED <<status, msg, stream_vars, setup_vars, task_vars, payload>>

\* DISPATCH_TOOLS: one standard tool call through llm_api.async_call_tool
ExecStandard ==
  /\ pc = "standard"
  /\ \E o \in ExecOutcomes :
       LET tool == standard_tools[k]
       IN /\ OutcomeAllowed(o)
          /\ o.value # None
          /\ history' = Append(history,
                               ToolResultOf(tool, o, [key |-> "response", val |-> o.value]))
          /\ executed' = Append(executed, [id |-> tool.id, tool_name |-> tool.tool_name,
                                           dest |-> "llm_api",
                                           raises |-> o.raises, turn |-> iteration,
                                           service |-> "async_call_tool",
                                           args |-> tool.tool_args, target |-> None])
          /\ varied' = IF o.raises /\ ~turn_varied THEN varied + 1 ELSE varied
          /\ turn_varied' = (turn_varied \/ o.raises)
          /\ IF k < Len(standard_tools)
             THEN /\ k' = k + 1
                  /\ pc' = pc
             ELSE \* continue
                  /\ k' = k
                  /\ pc' = "loop"
  /\ UNCHANGED <<use_streaming, llm_api, base, id_map, iteration, sends, messages,
                 assistant_content, music_tools, standard_tools, returned, raised,
                 completed, issued>>
  /\ UNCHANGED <<status, msg, stream_vars, setup_vars, task_vars, payload>>

\* a loop that stays where it is once the budget is used up
BudgetExhaustedSpins ==
  /\ pc = "loop"
  /\ ~LoopContinues(iteration)
  /\ UNCHANGED vars

\* after the loop: max iterations reached
BudgetExhausted ==
  /\ pc = "loop"
  /\ ~LoopContinues(iteration)
  /\ returned' = IF ContentTruthy(assistant_content) THEN assistant_content
                 ELSE FallbackContent
  /\ pc' = "done"
  /\ UNCHANGED <<use_streaming, llm_api, history, base, id_map, iteration, sends,
                 messages, assistant_content, music_tools, standard_tools, k, raised,
                 executed, completed, issued, varied, turn_varied>>
  /\ UNCHANGED <<status, msg, stream_vars, setup_vars, task_vars, payload>>

(***************************************************************************)
(* The AI task: _async_generate_data runs the loop with the structure      *)
(* prompt and turns the last assistant entry into the task's result.       *)
(***************************************************************************)
\* next(content for content in reversed(chat_log.content) if isinstance(
\* content, AssistantContent)), or None
RECURSIVE LastAssistant(_)
LastAssistant(h) ==
  IF h = <<>> THEN NoAssistant
  ELSE IF h[Len(h)].role = "assistant" THEN h[Len(h)]
  ELSE LastAssistant(SubSeq(h, 1, Len(h) - 1))

\* a result that hands on the text when it does not parse
GenDataResultSwallows(struct, h) ==
  IF LastAssistant(h) = NoAssistant
  THEN [kind |-> "error", data |-> "LLM did not return a response"]
  ELSE [kind |-> IF struct # None /\ LastAssistant(h).content \in DOMAIN JsonObjects
                 THEN "json" ELSE "text",
        data |-> IF Truthy(LastAssistant(h).content) THEN LastAssistant(h).content
                 ELSE ""]

\* the part of _async_generate_data after the loop: kind "text" is the
\* text as it is, kind "json" the value json.loads gives for the text,
\* kind "error" a HomeAssistantError
GenDataResult(struct, h) ==
  LET last == LastAssistant(h)
      text == IF Truthy(last.content) THEN last.content ELSE ""
  IN IF last = NoAssistant
     THEN [kind |-> "error", data |-> "LLM did not return a response"]
     ELSE IF struct = None THEN [kind |-> "text", data |-> text]
     ELSE IF text \in DOMAIN JsonObjects \cup {ScalarJson}
     THEN [kind |-> "json", data |-> text]
     ELSE [kind |-> "error", data |-> "Structured response was not valid JSON"]

\* _async_generate_data once the loop has returned or raised
GenerateData ==
  /\ pc \in {"done", "raised"}
  /\ task_result = NoTaskResult
  /\ task_result' = IF pc = "raised" THEN [kind |-> "error", data |-> raised]
                    ELSE GenDataResult(structure, history)
  /\ UNCHANGED <<loop_vars, status, msg, stream_vars, setup_vars, options, host_tools,
                 structure, payload>>

(***************************************************************************)
(* The streaming branch line by line: chat_stream opens the connection,    *)
(* _stream reads the lines, _transform_stream decodes each chunk as it is  *)
(* yielded, the loop accumulates the deltas.                               *)
(***************************************************************************)
\* lines read in one call
MaxLines == 4

\* the lines the remote side can send
WireLines ==
  {"", ": ping", DataPrefix \o DoneSentinel, DataPrefix \o MalformedJson,
   " " \o DataPrefix \o TextJson \o " ", DataPrefix \o Frag0aJson,
   DataPrefix \o Frag0bJson, DataPrefix \o Frag1Json, DataPrefix \o FinishJson,
   DataPrefix \o ScalarJson, DataPrefix \o StopJson}

\* async with self.http_client.stream(...) as response: the response
\* arrives; raise_for_status() leaves the block on a status that is not 2xx
OpenStream ==
  /\ pc = "await"
  /\ use_streaming
  /\ \E st \in {StatusOk} \cup ErrorStatuses :
       /\ status' = st
       /\ IF st = StatusOk
          THEN /\ conn' = "open"
               /\ pc' = "stream"
               /\ raised' = raised
          ELSE /\ conn' = "released"
               /\ pc' = "raised"
               /\ raised' = "HTTPStatusError"
  /\ seen' = <<>>
  /\ chunks' = <<>>
  /\ tool_call_buffers' = EmptyBuffers
  /\ deltas' = <<>>
  /\ UNCHANGED <<use_streaming, llm_api, history, base, id_map, iteration, sends,
                 messages, assistant_content, music_tools, standard_tools, k,
                 returned, executed, completed, issued, varied, turn_varied>>
  /\ UNCHANGED <<msg, received, setup_vars, task_vars, payload>>

\* an end of the sequence of chunks that completes the buffered fragments
\* as tool calls of the turn
StreamEndsFlushes ==
  /\ conn' = "released"
  /\ \E ac \in {AssistantContent(
                   AccumulateText(deltas),
                   AccumulateToolCalls(deltas) \o
                   CompleteToolCalls(SortedIndices(DOMAIN tool_call_buffers),
                                     tool_call_buffers, id_map).inputs)} :
       AfterResponse(ac)
  /\ UNCHANGED <<use_streaming, llm_api, base, id_map, iteration, sends, messages,
                 raised, executed, completed, issued, varied, turn_varied>>
  /\ UNCHANGED <<chunks, tool_call_buffers, deltas>>

\* the sequence of chunks ends (break on the sentinel, or aiter_lines is
\* exhausted): the async with block is left, _transform_stream ends, the loop
\* builds the assistant content of the turn
StreamEnds ==
  /\ conn' = "released"
  /\ \E ac \in {AssistantContent(AccumulateText(deltas), AccumulateToolCalls(deltas))} :
       AfterResponse(ac)
  /\ UNCHANGED <<use_streaming, llm_api, base, id_map, iteration, sends, messages,
                 raised, executed, completed, issued, varied, turn_varied>>
  /\ UNCHANGED <<chunks, tool_call_buffers, deltas>>

\* a partial turn that a cancelled call appends before it ends
CancelKeepsPartial ==
  /\ pc \in {"await", "stream"}
  /\ raised' = "CancelledError"
  /\ pc' = "raised"
  /\ conn' = IF conn = "open" THEN "released" ELSE conn
  /\ history' = IF pc = "stream"
                THEN Append(history, AssistantContent(AccumulateText(deltas),
                                                      AccumulateToolCalls(deltas)))
                ELSE history
  /\ UNCHANGED <<use_streaming, llm_api, base, id_map, iteration, sends,
                 messages, assistant_content, music_tools, standard_tools, k,
                 returned, executed, completed, issued, varied, turn_varied>>
  /\ UNCHANGED <<status, msg, seen, received, chunks, tool_call_buffers, deltas,
                 setup_vars, task_vars, payload>>

\* the call is cancelled while it awaits the response or the next line:
\* CancelledError is raised at that await, inside the async with block of
\* _stream when the connection is open, and leaves the call
Cancel ==
  /\ pc \in {"await", "stream"}
  /\ raised' = "CancelledError"
  /\ pc' = "raised"
  /\ conn' = IF conn = "open" THEN "released" ELSE conn
  /\ UNCHANGED <<use_streaming, llm_api, history, base, id_map, iteration, sends,
                 messages, assistant_content, music_tools, standard_tools, k,
                 returned, executed, completed, issued, varied, turn_varied>>
  /\ UNCHANGED <<status, msg, seen, received, chunks, tool_call_buffers, deltas,
                 setup_vars, task_vars, payload>>

\* the transport fails while the response or the next line is awaited
TransportFails ==
  /\ pc \in {"await", "stream"}
  /\ raised' \in TransportErrors \ {"HTTPStatusError"}
  /\ pc' = "raised"
  /\ conn' = IF conn = "open" THEN "released" ELSE conn
  /\ UNCHANGED <<use_streaming, llm_api, history, base, id_map, iteration, sends,
                 messages, assistant_content, music_tools, standard_tools, k,
                 returned, executed, completed, issued, varied, turn_varied>>
  /\ UNCHANGED <<status, msg, seen, received, chunks, tool_call_buffers, deltas,
                 setup_vars, task_vars, payload>>

\* one line of the response: the body of the loops of _stream, of
\* _transform_stream and of the streaming branch for it
RecvLine ==
  /\ pc = "stream"
  /\ received < MaxLines
  /\ \E raw \in WireLines :
     \E ev \in {DecodeLine(raw)} :
       /\ seen' = Append(seen, raw)
       /\ received' = received + 1
       /\ IF ev.kind = "skip"
          THEN UNCHANGED <<loop_vars, conn, chunks, tool_call_buffers, deltas>>
          ELSE IF ev.kind = "done"
          THEN StreamEnds
          ELSE IF ~IsChunkObject(ev.chunk)
          THEN \* chunk.get raises AttributeError in _transform_stream; _stream
               \* stays suspended at its yield, inside the async with block
               /\ chunks' = Append(chunks, ev.chunk)
               /\ raised' = "AttributeError"
               /\ pc' = "raised"
               /\ UNCHANGED <<use_streaming, llm_api, history, base, id_map,
                              iteration, sends, messages, assistant_content,
                              music_tools, standard_tools, k, returned, executed,
                              completed, issued, varied, turn_varied>>
               /\ UNCHANGED <<conn, tool_call_buffers, deltas>>
          ELSE \E c \in {TransformChoices(ev.chunk.choices, tool_call_buffers, id_map)} :
               /\ chunks' = Append(chunks, ev.chunk)
               /\ tool_call_buffers' = c.bufs
               /\ id_map' = c.map
               /\ deltas' = deltas \o c.deltas
               /\ UNCHANGED <<use_streaming, llm_api, history, base, pc, iteration,
                              sends, messages, assistant_content, music_tools,
                              standard_tools, k, returned, raised, executed,
                              completed, issued, varied, turn_varied>>
               /\ conn' = conn
  /\ UNCHANGED <<status, msg, setup_vars, task_vars, payload>>

\* aiter_lines() is exhausted
EndOfInput ==
  /\ pc = "stream"
  /\ StreamEnds
  /\ UNCHANGED <<status, msg, seen, received, setup_vars, task_vars, payload>>

\* the abandoned generator _stream is finalized (aclose() by the event
\* loop's asynchronous-generator hook once it is collected)
Finalize ==
  /\ pc = "raised"
  /\ conn = "open"
  /\ conn' = "released"
  /\ UNCHANGED <<loop_vars, status, msg, seen, received, chunks, tool_call_buffers,
                 deltas, setup_vars, task_vars, payload>>

(***************************************************************************)
(* Credential checks: the user step of the config flow (validate_input,    *)
(* a one-token chat request) and async_setup_entry (validate_api_key, the  *)
(* list of models).                                                        *)
(***************************************************************************)
\* credential checks in one run
MaxChecks == 3

\* what the remote side answers to a credential check
ProbeOutcomes ==
  {[error |-> None, status |-> StatusOk]}
  \cup {[error |-> "HTTPStatusError", status |-> st] : st \in ErrorStatuses}
  \cup {[error |-> e, status |-> 0] : e \in TransportErrors \ {"HTTPStatusError"}}

\* MistralConfigFlow.async_step_user with user_input: try validate_input /
\* except Exception: errors["base"] = "cannot_connect" / else: create entry
StepUser ==
  /\ entry_state = "none"
  /\ Len(setup_log) < MaxChecks
  /\ \E probe \in ProbeOutcomes :
       /\ flow_errors' = IF probe.error = None THEN "" ELSE "cannot_connect"
       /\ entry_state' = IF probe.error = None THEN "not_loaded" ELSE entry_state
       /\ setup_log' = Append(setup_log,
                              [op |-> "step_user", probe |-> probe,
                               report |-> IF probe.error = None THEN "create_entry"
                                          ELSE "cannot_connect"])
  /\ UNCHANGED <<loop_vars, status, msg, stream_vars, runtime_data, task_vars, payload>>

\* async_setup_entry; the host calls it again after ConfigEntryNotReady
SetupEntry ==
  /\ entry_state \in {"not_loaded", "setup_retry"}
  /\ Len(setup_log) < MaxChecks
  /\ \E probe \in ProbeOutcomes :
     \E report \in {IF probe.error = None THEN "loaded"
                    ELSE IF probe.error = "HTTPStatusError" /\ probe.status = 401
                    THEN "ConfigEntryAuthFailed"
                    ELSE "ConfigEntryNotReady"} :
       /\ runtime_data' = IF report = "loaded" THEN "client" ELSE runtime_data
       /\ entry_state' = IF report = "loaded" THEN "loaded"
                         ELSE IF report = "ConfigEntryAuthFailed" THEN "setup_error"
                         ELSE "setup_retry"
       /\ setup_log' = Append(setup_log,
                              [op |-> "setup_entry", probe |-> probe, report |-> report])
  /\ UNCHANGED <<loop_vars, status, msg, stream_vars, flow_errors, task_vars, payload>>

(***************************************************************************)
(* Specifications.  Spec: every shape of turn and every executor outcome   *)
(* over well-formed remote ids.  SpecIds: every kind of tool-call id, in   *)
(* the history handed in and in the responses.                             *)
(***************************************************************************)
DispatchHistories == {UserHistory, ExchangeHistory(LongCallerId, ValidCallerId)}

IdHistories ==
  {UserHistory, ExchangeHistory(None, ""), ExchangeHistory(LongCallerId, HyphenCallerId),
   ExchangeHistory(ValidCallerId, LongCallerId)}

InitDispatch == Init(DispatchHistories, BOOLEAN)
InitIds == Init(IdHistories, {TRUE})

Next ==
  \/ Send
  \/ RequestFails
  \/ RecvStream(DispatchTurns)
  \/ RecvBlocking(DispatchTurns)
  \/ ExecMusic
  \/ ExecStandard
  \/ BudgetExhausted

NextIds ==
  \/ Send
  \/ RequestFails
  \/ RecvStream(IdTurns)
  \/ RecvBlocking(IdTurns)
  \/ ExecStandard
  \/ BudgetExhausted

\* turns of host tool calls with well-formed and malformed argument texts
ArgTurns ==
  PlainTurns \cup
  TurnsOf({""}, {LightTurnOn}, {NewId}, {"{}", "{\"a\":1}", "{\"a\":1"}, {"tool_calls"})

InitWire == Init({UserHistory}, {TRUE})

NextWire ==
  \/ Send
  \/ OpenStream
  \/ RecvLine
  \/ EndOfInput
  \/ Cancel
  \/ TransportFails
  \/ Finalize
  \/ RecvBlocking(ArgTurns)
  \/ ExecStandard
  \/ BudgetExhausted

InitSetup == Init({UserHistory}, {TRUE})

NextSetup ==
  \/ StepUser
  \/ SetupEntry

\* the payload under every choice of model and every kind of host tool
\* list: none, without the music names, with one of them, with both
\* a history with entries of empty content: system, assistant without
\* tool calls, user
EmptyEntriesHistory ==
  <<PlainContent("system", ""), PlainContent("user", "hello"), AssistantContent("", <<>>),
    PlainContent("user", ""), PlainContent("user", "turn on the lamp")>>

InitPayload ==
  /\ InitLoop(DispatchHistories \cup {EmptyEntriesHistory}, BOOLEAN)
  /\ options \in {Options(m, None, None) : m \in {None, ReasoningModel}}
  /\ host_tools \in {<<>>, <<LightTurnOn>>, <<LightTurnOn, MusicSearch>>,
                      <<MusicPlayMedia, LightTurnOn>>, <<MusicSearch, MusicPlayMedia>>}
  /\ structure = None

NextPayload ==
  \/ Send
  \/ RequestFails
  \/ RecvStream(PlainTurns)
  \/ RecvBlocking(PlainTurns)
  \/ ExecStandard
  \/ BudgetExhausted

\* the music branch: one turn of calls over the music names and a host
\* tool, with arguments inside and outside the allow-lists, under every
\* choice of default player and Music Assistant entry
MusicTurns ==
  {Turn("Done.", <<>>, "stop")} \cup
  TurnsOf({""}, {MusicSearch, MusicPlayMedia, MusicGetLibrary, MusicBare, LightTurnOn},
          {NewId}, {PlayArgsJson, SearchArgsJson}, {"tool_calls"})

InitMusic ==
  /\ InitLoop({UserHistory}, {TRUE})
  /\ options \in {Options(None, p, e) :
                    p \in {None, "media_player.office"}, e \in {None, "01MA"}}
  /\ host_tools = <<LightTurnOn>>
  /\ structure = None

NextMusic ==
  \/ Send
  \/ RecvStream(MusicTurns)
  \/ RecvBlocking(MusicTurns)
  \/ ExecMusic
  \/ ExecStandard

\* the AI task with and without a structure; the final answers are a
\* JSON text, a text that is no JSON, and the empty text
TaskTurns ==
  PlainTurns \cup {Turn("{\"a\":1}", <<>>, "stop"), Turn("", <<>>, "stop")}

InitTask ==
  /\ InitLoop({UserHistory}, BOOLEAN)
  /\ use_streaming
  /\ options = Options(None, None, None)
  /\ host_tools = <<LightTurnOn>>
  /\ structure \in {None, "schema"}

NextTask ==
  \/ Send
  \/ RequestFails
  \/ RecvStream(TaskTurns)
  \/ ExecStandard
  \/ BudgetExhausted
  \/ GenerateData

Spec == InitDispatch /\ [][Next]_vars
SpecTask == InitTask /\ [][NextTask]_vars
\* termination: tool turns over a music tool and a host tool, every
\* request and every tool invocation completes, and the coroutine is
\* resumed when it does
FairTurns ==
  PlainTurns \cup
  TurnsOf({""}, {MusicSearch, LightTurnOn}, {NewId}, {"{}"}, {"tool_calls"})

NextFair ==
  \/ Send
  \/ RequestFails
  \/ RecvStream(FairTurns)
  \/ RecvBlocking(FairTurns)
  \/ ExecMusic
  \/ ExecStandard
  \/ BudgetExhausted

SpecFair == InitDispatch /\ [][NextFair]_vars /\ WF_vars(NextFair)
SpecPayload == InitPayload /\ [][NextPayload]_vars
SpecMusic == InitMusic /\ [][NextMusic]_vars
SpecSetup == InitSetup /\ [][NextSetup]_vars
SpecWire == InitWire /\ [][NextWire]_vars
SpecIds == InitIds /\ [][NextIds]_vars

(***************************************************************************)
(* Properties of the conversation loop.                                    *)
(***************************************************************************)
\* the entries of the history that this call appended
Appended == (base + 1)..Len(history)

\* the tool-result entries of the history for the caller id c
ResultsFor(c) ==
  {m \in 1..Len(history) :
     history[m].role = "tool_result" /\ history[m].tool_call_id = c}

\* a SEND after the first has just been issued, or the call has returned
AtSendOrReturn == (pc = "await" /\ sends > 1) \/ pc = "done"

\* C1: at every SEND after the first and at the return, every tool call of
\* an assistant entry appended by this call has exactly one tool-result
\* entry with its tool_call_id.
C1_ToolResultComplete ==
  AtSendOrReturn =>
    \A i \in Appended :
      history[i].role = "assistant" =>
        \A j \in 1..Len(history[i].tool_calls) :
          Cardinality(ResultsFor(history[i].tool_calls[j].id)) = 1

\* the executor invocations of the current iteration
ExecutedNow == {n \in 1..Len(executed) : executed[n].turn = iteration}
RaisedNow == \E n \in ExecutedNow : executed[n].raises

\* C2: when an executor raises, the call gets a tool-result entry with an
\* error indicator, the remaining tool calls of the turn are still
\* executed, the loop goes on to the next SEND while the budget lasts, and
\* the exception never leaves the call.
C2_FailureIsolation ==
  /\ \A n \in 1..Len(executed) :
       executed[n].raises =>
         \E m \in ResultsFor(executed[n].id) :
           m \in Appended /\ history[m].tool_result.key = "error"
  /\ (pc \in {"loop", "done"} /\ RaisedNow) =>
       \A j \in 1..Len(assistant_content.tool_calls) :
         \E n \in ExecutedNow : executed[n].id = assistant_content.tool_calls[j].id
  /\ (pc = "done" /\ RaisedNow) => iteration = MAX_TOOL_ITERATIONS
  /\ pc = "raised" => raised \in TransportErrors \cup {"KeyError"}

\* C3: a decoded turn with zero tool calls is appended as it is and
\* returned unchanged, no tool is executed and no further SEND is issued
\* (one SEND in all when it is the first response).
C3_NoToolCallsReturns ==
  [][(pc = "await" /\ pc' # "raised" /\ assistant_content'.tool_calls = <<>>) =>
       /\ history' = Append(history, assistant_content')
       /\ returned' = assistant_content'
       /\ pc' = "done"
       /\ executed' = executed
       /\ sends' = sends /\ sends = iteration]_vars

C3_Witness ==
  /\ pc = "done" /\ sends > 1
  /\ returned = assistant_content /\ assistant_content.tool_calls = <<>>
  /\ assistant_content.content \in {"", None}

\* C4: a model that returns a tool call in every response, with executors
\* available, makes the loop issue exactly MAX_TOOL_ITERATIONS requests;
\* no run issues more.
C4_BudgetExact ==
  /\ sends <= MAX_TOOL_ITERATIONS
  /\ (pc = "done" /\ assistant_content.tool_calls # <<>> /\ llm_api) =>
       sends = MAX_TOOL_ITERATIONS

C4_Witness ==
  pc = "done" /\ assistant_content.tool_calls # <<>> /\ llm_api
  /\ sends = MAX_TOOL_ITERATIONS

\* the loop ran out of iterations: the last turn carried tool calls and
\* they were dispatched
BudgetExit ==
  /\ pc = "done"
  /\ iteration = MAX_TOOL_ITERATIONS
  /\ assistant_content.tool_calls # <<>>
  /\ (llm_api \/ StandardOf(assistant_content.tool_calls) = <<>>)

\* C5: when the budget is exhausted the call returns a turn with non-empty
\* text: the text of the last model turn when it has any, and the fallback
\* turn without tool calls otherwise.
C5_GracefulExhaustion ==
  BudgetExit =>
    /\ Truthy(returned.content)
    /\ Truthy(assistant_content.content) => returned.content = assistant_content.content
    /\ ~Truthy(assistant_content.content) => returned = FallbackContent

\* C6: in streaming mode a turn without text and without tool calls is
\* never appended and returned as the final answer.
C6_EmptyStreamResent ==
  ~(/\ use_streaming
    /\ pc = "done"
    /\ returned = assistant_content
    /\ returned.tool_calls = <<>>
    /\ ~Truthy(returned.content))

(***************************************************************************)
(* Properties of the identifiers.                                          *)
(***************************************************************************)
\* the ids of tool calls and tool results in a list of wire messages
WireIds(msgs) ==
  {msgs[i].tool_call_id : i \in {n \in 1..Len(msgs) : msgs[n].role = "tool"}}
  \cup UNION {{msgs[i].tool_calls[j].id : j \in 1..Len(msgs[i].tool_calls)} :
              i \in 1..Len(msgs)}

\* C7: every tool-call id and every tool_call_id in the messages of every
\* SEND matches the remote identifier syntax.
C7_WireIdsWellFormed == \A id \in WireIds(messages) : MistralIdRe(id)

\* C8: no two distinct keys of the id map have the same value.
C8_MapInjective ==
  \A c1, c2 \in DOMAIN id_map : id_map[c1] = id_map[c2] => c1 = c2

\* the keys that the stream decoder minted and the keys that the
\* normalization entered
MintedKeys == {c.caller : c \in completed}
C8_Witness ==
  /\ \E c1 \in MintedKeys : c1 \in DOMAIN id_map
  /\ Cardinality((DOMAIN id_map) \ MintedKeys) >= 2
  /\ pc = "await"

\* C9: once the normalization has returned R for a caller id X that does
\* not match the remote syntax, every later normalization of X returns R,
\* whatever else the map has taken up in between, and enters nothing.
C9_NormalizationStable ==
  [][\A x \in DOMAIN id_map :
       ~MistralIdRe(x) =>
         /\ NormalizeOutgoingToolId(x, id_map, <<>>).id = id_map[x]
         /\ NormalizeOutgoingToolId(x, id_map', <<>>).id = id_map[x]
         /\ NormalizeOutgoingToolId(x, id_map', <<>>).map = id_map']_vars

C9_Witness ==
  /\ LongCallerId \in DOMAIN id_map
  /\ \E c \in completed : c.caller \in DOMAIN id_map
  /\ sends >= 3

\* whether a history entry yields a wire message, and the index of the
\* message of the i-th entry of the history (after the system message)
Emits(e) == e.role \in {"assistant", "tool_result"} \/ Truthy(e.content)
MessageIndex(i) == 1 + Cardinality({n \in 1..i : Emits(history[n])})

\* C10: for every tool call that the stream decoder completed with remote
\* id R under the caller id C, the assistant tool call and the tool result
\* of C carry R in the messages of every later SEND.
C10_RoundTrip ==
  pc = "await" =>
    \A c \in completed :
      \A i \in 1..Len(history) :
        /\ (history[i].role = "tool_result" /\ history[i].tool_call_id = c.caller) =>
             messages[MessageIndex(i)].tool_call_id = c.remote
        /\ \A j \in 1..Len(history[i].tool_calls) :
             history[i].tool_calls[j].id = c.caller =>
               messages[MessageIndex(i)].tool_calls[j].id = c.remote

C10_Witness ==
  /\ pc = "await"
  /\ \E c \in completed :
       /\ c.remote = RemoteId(0)
       /\ \E i \in 1..Len(history) :
            history[i].role = "tool_result" /\ history[i].tool_call_id = c.caller
  /\ sends >= 3

(***************************************************************************)
(* Properties of the response decoding and of the error boundary.          *)
(***************************************************************************)
\* C11: a tool call of the response without an id never aborts the call: in
\* blocking and in streaming mode the call is taken over under an identifier
\* made for it
C11_MissingIdPolicy ==
  /\ (\E j \in 1..Len(msg.tool_calls) : msg.tool_calls[j].id = None) =>
        /\ pc # "raised"
        /\ Len(assistant_content.tool_calls) = Len(msg.tool_calls)
        /\ \A j \in 1..Len(msg.tool_calls) : Truthy(assistant_content.tool_calls[j].id)
  /\ \A c \in completed : c.remote = "" => Truthy(c.caller)

(***************************************************************************)
(* The stream decoder against the fragments it was given.  The chunks of   *)
(* the model carry one choice each.                                        *)
(***************************************************************************)
MaxOf(S) == CHOOSE x \in S : \A y \in S : y <= x

ChoiceOf(n) == chunks[n].choices[1]
IsFinish(n) == IsChunkObject(chunks[n]) /\ ChoiceOf(n).finish_reason = "tool_calls"
\* the positions of the finish signals among the chunks
FinishPositions == {n \in 1..Len(chunks) : IsFinish(n)}
\* the last finish signal before position n (0: none)
FinishBefore(n) == MaxOf({0} \cup {m \in FinishPositions : m < n})

\* the fragments of the chunks lo..hi in arrival order
RECURSIVE Timeline(_, _)
Timeline(lo, hi) ==
  IF lo > hi THEN <<>>
  ELSE (IF IsChunkObject(chunks[lo]) THEN ChoiceOf(lo).delta.tool_calls ELSE <<>>)
       \o Timeline(lo + 1, hi)

Indices(tl) == {tl[p].index : p \in DOMAIN tl}

\* the argument pieces for index idx, concatenated in arrival order
RECURSIVE ArgPieces(_, _)
ArgPieces(tl, idx) ==
  IF tl = <<>> THEN ""
  ELSE (IF Head(tl).index = idx /\ Truthy(Head(tl).arguments)
        THEN Head(tl).arguments ELSE "")
       \o ArgPieces(Tail(tl), idx)

\* the last non-empty id and name for index idx ("" when there is none)
LastId(tl, idx) ==
  LET P == {p \in DOMAIN tl : tl[p].index = idx /\ Truthy(tl[p].id)}
  IN IF P = {} THEN "" ELSE tl[MaxOf(P)].id
LastName(tl, idx) ==
  LET P == {p \in DOMAIN tl : tl[p].index = idx /\ Truthy(tl[p].name)}
  IN IF P = {} THEN "" ELSE tl[MaxOf(P)].name

\* the records the fragments tl describe, index by index
RecordsOf(tl) ==
  [i \in Indices(tl) |->
     [id |-> LastId(tl, i), name |-> LastName(tl, i), arguments |-> ArgPieces(tl, i)]]

\* the deltas that finish signals made the decoder yield, in order
FinishDeltas == SelectSeq(deltas, LAMBDA d : d.content = None)
\* the n-th finish position in ascending order
RECURSIVE NthFinish(_)
NthFinish(j) ==
  IF j = 1 THEN CHOOSE n \in FinishPositions : \A m \in FinishPositions : n <= m
  ELSE CHOOSE n \in FinishPositions :
         /\ n > NthFinish(j - 1)
         /\ \A m \in FinishPositions : m > NthFinish(j - 1) => n <= m
\* the fragments that belong to the j-th finish signal
SegmentOf(j) == Timeline(FinishBefore(NthFinish(j)) + 1, NthFinish(j))

\* C12: the record buffered for an index holds the argument pieces received
\* for that index concatenated in arrival order and the last non-empty id and
\* name received for it, whatever arrived for other indices; a completed call
\* carries the name, the id and the parsed argument text of such a record
C12_FragmentMerging ==
  /\ tool_call_buffers = RecordsOf(Timeline(FinishBefore(Len(chunks) + 1) + 1, Len(chunks)))
  /\ Len(FinishDeltas) = Cardinality(FinishPositions)
  /\ \A j \in 1..Len(FinishDeltas) :
       \A n \in 1..Len(FinishDeltas[j].tool_calls) :
         LET call == FinishDeltas[j].tool_calls[n]
             recs == RecordsOf(SegmentOf(j))
         IN \E i \in DOMAIN recs :
              /\ call.tool_name = recs[i].name
              /\ call.tool_args = JsonLoadsOrEmpty(recs[i].arguments)
              /\ call.id \in DOMAIN id_map
              /\ id_map[call.id] = recs[i].id

\* two argument pieces and a later id for index 0, completed as one call
C12_Witness ==
  /\ Len(FinishDeltas) = 1
  /\ Len(FinishDeltas[1].tool_calls) = 1
  /\ FinishDeltas[1].tool_calls[1].tool_args = JsonObjects["{\"a\":1}"]
  /\ id_map[FinishDeltas[1].tool_calls[1].id] = RemoteId(2)
  /\ Len(SegmentOf(1)) = 2

\* the n-th smallest element of a set of indices
NthSmallest(S, n) == CHOOSE i \in S : Cardinality({x \in S : x < i}) = n - 1

\* C13: each finish signal "tool_calls" makes the decoder emit one completed
\* call per index buffered since the previous finish signal, in ascending
\* index order whatever the arrival order, and leaves the buffers empty: a
\* later finish signal emits no call again
C13_FinishEmitsEachIndexOnce ==
  /\ Len(FinishDeltas) = Cardinality(FinishPositions)
  /\ \A j \in 1..Len(FinishDeltas) :
       LET calls == FinishDeltas[j].tool_calls
           recs == RecordsOf(SegmentOf(j))
       IN /\ Len(calls) = Cardinality(DOMAIN recs)
          /\ \A n \in 1..Len(calls) :
               /\ calls[n].id \in DOMAIN id_map
               /\ id_map[calls[n].id] = recs[NthSmallest(DOMAIN recs, n)].id
  /\ (chunks # <<>> /\ IsFinish(Len(chunks))) => tool_call_buffers = EmptyBuffers

\* index 1 arrived before index 0, both were emitted by the first finish
\* signal and none by the second
C13_Witness ==
  /\ Len(FinishDeltas) = 2
  /\ Len(FinishDeltas[1].tool_calls) = 2
  /\ FinishDeltas[2].tool_calls = <<>>
  /\ SegmentOf(1)[1].index = 1
  /\ id_map[FinishDeltas[1].tool_calls[1].id] = RemoteId(0)

\* the argument text does not parse as JSON
Malformed(text) == text \notin DOMAIN JsonObjects

\* every tool call of the current turn has been handed to its executor
Dispatched ==
  \A n \in 1..Len(assistant_content.tool_calls) :
    \E e \in ExecutedNow : executed[e].id = assistant_content.tool_calls[n].id

\* C14: a tool call whose argument text is not JSON is completed with an
\* empty argument mapping, in the streaming decoder and in the blocking
\* branch, is dispatched like the other calls, and leaves no error behind
C14_MalformedArgumentsAbsorbed ==
  /\ \A j \in 1..Len(FinishDeltas) :
       LET recs == RecordsOf(SegmentOf(j))
       IN \A i \in DOMAIN recs :
            Malformed(recs[i].arguments) =>
              \E n \in 1..Len(FinishDeltas[j].tool_calls) :
                /\ id_map[FinishDeltas[j].tool_calls[n].id] = recs[i].id
                /\ FinishDeltas[j].tool_calls[n].tool_name = recs[i].name
                /\ FinishDeltas[j].tool_calls[n].tool_args = EmptyArgs
  /\ \A n \in 1..Len(msg.tool_calls) :
       Malformed(msg.tool_calls[n].arguments) =>
         /\ Len(assistant_content.tool_calls) = Len(msg.tool_calls)
         /\ assistant_content.tool_calls[n].tool_name = msg.tool_calls[n].name
         /\ assistant_content.tool_calls[n].tool_args = EmptyArgs
  /\ (pc \in {"loop", "done"} /\ raised = None) => Dispatched
  /\ raised \in {None, "CancelledError", "AttributeError"} \cup TransportErrors

\* an unterminated argument text at the finish signal, completed with empty
\* arguments and executed
C14_Witness ==
  /\ Len(FinishDeltas) = 1
  /\ DOMAIN RecordsOf(SegmentOf(1)) = {0}
  /\ RecordsOf(SegmentOf(1))[0].arguments = "{\"a\":1"
  /\ FinishDeltas[1].tool_calls[1].tool_args = EmptyArgs
  /\ pc = "loop"
  /\ Dispatched
  /\ executed # <<>>

\* the error kinds of the typed taxonomy
ErrorKinds ==
  {"InvalidCredential", "TransientUnavailable", "RateLimited", "QuotaExceeded",
   "UpstreamError", "Timeout", "StructuredOutputInvalid"}

\* C15: a run of the loop ends by returning a completed assistant turn or by
\* raising one error of the typed taxonomy, never a raw transport exception;
\* HTTP 429 surfaces as RateLimited and HTTP 500 as UpstreamError
C15_TypedErrorBoundary ==
  /\ pc = "done" => (returned # NoAssistant /\ raised = None)
  /\ pc = "raised" => (returned = NoAssistant /\ raised \in ErrorKinds)
  /\ (pc = "raised" /\ status = 429) => raised = "RateLimited"
  /\ (pc = "raised" /\ status = 500) => raised = "UpstreamError"

\* C16: once a chat request has failed, the call issues no further request
\* and executes no further tool: the failure leaves the call in the step in
\* which it occurs
C16_NoRetry ==
  [][/\ (raised' \in TransportErrors /\ raised = None) => pc' = "raised"
     /\ raised \in TransportErrors =>
          (sends' = sends /\ executed' = executed /\ history' = history /\ pc' = pc)]_vars

\* a rate-limited request after a turn whose tool was executed
C16_Witness ==
  /\ pc = "raised"
  /\ raised = "HTTPStatusError"
  /\ status = 429
  /\ sends = 2
  /\ executed # <<>>

(***************************************************************************)
(* Properties of the credential checks.                                    *)
(***************************************************************************)
BadCredential(e) == e.probe.error = "HTTPStatusError" /\ e.probe.status = 401
OtherFailure(e) == e.probe.error # None /\ ~BadCredential(e)

\* C17: every credential check reports a 401 status as a bad credential and
\* any other failure as transient, never the two alike, and a failed check
\* leaves the client uninstalled
C17_CredentialOutcomesDistinct ==
  /\ \A i, j \in 1..Len(setup_log) :
       (setup_log[i].op = setup_log[j].op /\ BadCredential(setup_log[i])
        /\ OtherFailure(setup_log[j]))
         => setup_log[i].report # setup_log[j].report
  /\ \A i \in 1..Len(setup_log) :
       setup_log[i].op = "setup_entry" =>
         /\ BadCredential(setup_log[i]) => setup_log[i].report = "ConfigEntryAuthFailed"
         /\ OtherFailure(setup_log[i]) => setup_log[i].report = "ConfigEntryNotReady"
  /\ runtime_data # None => entry_state = "loaded"

(***************************************************************************)
(* Properties of the streaming connection and of the line decoding.        *)
(***************************************************************************)
\* C18: whenever the call is not awaiting a response or the next line of
\* one, no streaming connection of the call is open: the connection is
\* released on the sentinel, at the end of the input, on a status that is
\* not 2xx, on cancellation, and when the consumer gives the sequence up
\* after an error on a chunk
C18_ConnectionReleased == pc \notin {"await", "stream"} => conn # "open"

\* the request is in flight
InFlight == pc \in {"await", "stream"}

\* C19: from the SEND to a cancellation or a failure of the request, the
\* text and tool calls accumulated for the turn stay out of the history and
\* no tool is executed: the history is the one the SEND started from
C19_PartialTurnDiscarded ==
  [][(InFlight /\ (pc' \in {"await", "stream"} \/ (pc' = "raised" /\ raised' # None)))
       => (history' = history /\ executed' = executed)]_vars

\* a call cancelled with text and a completed tool call accumulated
C19_Witness ==
  /\ pc = "raised"
  /\ raised = "CancelledError"
  /\ AccumulateText(deltas) # ""
  /\ AccumulateToolCalls(deltas) # <<>>
  /\ history = UserHistory
  /\ executed = <<>>

IsDataEvent(raw) == StartsWith(Strip(raw), DataPrefix)
PayloadOf(raw) == DataOf(Strip(raw))
IsSentinel(raw) == IsDataEvent(raw) /\ PayloadOf(raw) = DoneSentinel
WellFormedEvent(raw) == IsDataEvent(raw) /\ PayloadOf(raw) \in DOMAIN ChunkJson

\* the lines before the first sentinel
BeforeSentinel(ls) ==
  LET S == {n \in 1..Len(ls) : IsSentinel(ls[n])}
  IN IF S = {} THEN ls ELSE SubSeq(ls, 1, (CHOOSE n \in S : \A m \in S : n <= m) - 1)

\* the decoded payloads of the well-formed data events before the sentinel
ExpectedChunks(ls) ==
  LET events == SelectSeq(BeforeSentinel(ls), WellFormedEvent)
  IN [n \in 1..Len(events) |-> ChunkJson[PayloadOf(events[n])]]

\* C20: the chunks yielded are, in order, the decoded payloads of the
\* well-formed data events before the first sentinel; the sentinel yields no
\* chunk and no line is read after it; a line that is no sentinel, an event
\* with malformed JSON included, does not end the sequence
C20_SseDecoding ==
  [][/\ chunks' = ExpectedChunks(seen')
     /\ (\E n \in 1..Len(seen) : IsSentinel(seen[n])) => seen' \in {seen, <<>>}
     /\ (pc = "stream" /\ Len(seen') = Len(seen) + 1
         /\ ~IsSentinel(seen'[Len(seen')]))
          => (pc' = "stream" \/ (pc' = "raised" /\ Len(chunks') = Len(chunks) + 1))]_vars

\* a malformed event between two yielded chunks, then the sentinel
C20_Witness ==
  /\ Len(seen) = 4
  /\ IsSentinel(seen[4])
  /\ IsDataEvent(seen[2]) /\ ~WellFormedEvent(seen[2])
  /\ Len(chunks) = 2
  /\ conn = "released"

(***************************************************************************)
(* Properties of the payload and of the dispatch.                          *)
(***************************************************************************)
\* C21: in the tools list of every request payload no two descriptors have
\* the same function name, whatever tools the host exposes, the music
\* names among them or not.
C21_NoDuplicateToolNames ==
  \A i, j \in 1..Len(payload.tools) :
     payload.tools[i].name = payload.tools[j].name => i = j

\* a request whose host exposes one of the two music names: the host's two
\* descriptors and no static one
C21_Witness ==
  /\ sends > 0
  /\ llm_api
  /\ host_tools = <<LightTurnOn, MusicSearch>>
  /\ payload.tools = <<FormatTool(LightTurnOn), FormatTool(MusicSearch)>>

\* C22: every tool call is executed at most once and by one destination:
\* a call of a music_assistant service goes to that service and never to
\* llm_api.async_call_tool, every other call goes to llm_api.async_call_tool
\* and never to the music service.
C22_DispatchRouting ==
  /\ \A i, j \in 1..Len(executed) : executed[i].id = executed[j].id => i = j
  /\ \A i \in 1..Len(executed) :
       /\ executed[i].dest \in {"music_assistant", "llm_api"}
       /\ executed[i].dest = "music_assistant"
            <=> executed[i].tool_name \in {MusicSearch, MusicPlayMedia, MusicGetLibrary}
       /\ \E n \in base + 1..Len(history) :
            \E c \in 1..Len(history[n].tool_calls) :
               /\ history[n].tool_calls[c].id = executed[i].id
               /\ history[n].tool_calls[c].tool_name = executed[i].tool_name

\* a turn with a music call and a host tool call, both executed
C22_Witness ==
  \E i, j \in 1..Len(executed) :
     /\ executed[i].turn = executed[j].turn
     /\ executed[i].dest = "music_assistant"
     /\ executed[j].dest = "llm_api"
     /\ executed[j].tool_name = LightTurnOn

\* the tool call of the history that an executor invocation belongs to
ToolCallOf(e) ==
  LET n == CHOOSE n \in base + 1..Len(history) :
             \E c \in 1..Len(history[n].tool_calls) : history[n].tool_calls[c].id = e.id
      c == CHOOSE c \in 1..Len(history[n].tool_calls) : history[n].tool_calls[c].id = e.id
  IN history[n].tool_calls[c]

\* the arguments of an invocation that the model supplied, with its values
ModelSupplied(e, keys) ==
  \A x \in keys : x \in DOMAIN ToolCallOf(e).tool_args
                   /\ e.args[x] = ToolCallOf(e).tool_args[x]

\* C23: play_media is invoked with the model's media_id and media_type and
\* nothing else, and with the call's entity_id as target when given and the
\* configured default media player otherwise; search is invoked with the
\* model's name, limit, media_type and artist and nothing else of the
\* model's, plus config_entry_id exactly when a Music Assistant entry is
\* configured, and then with the configured value.
C23_ArgumentAllowList ==
  \A i \in 1..Len(executed) :
     /\ executed[i].tool_name = MusicPlayMedia =>
          /\ DOMAIN executed[i].args
                = DOMAIN ToolCallOf(executed[i]).tool_args \cap {"media_id", "media_type"}
          /\ ModelSupplied(executed[i], DOMAIN executed[i].args)
          /\ executed[i].target =
                IF "entity_id" \in DOMAIN ToolCallOf(executed[i]).tool_args
                THEN ToolCallOf(executed[i]).tool_args["entity_id"]
                ELSE IF options.default_media_player # None
                THEN options.default_media_player
                ELSE DEFAULT_VOICE_BOX
     /\ executed[i].tool_name = MusicSearch =>
          /\ DOMAIN executed[i].args \ {"config_entry_id"}
                = DOMAIN ToolCallOf(executed[i]).tool_args
                  \cap {"name", "limit", "media_type", "artist"}
          /\ ModelSupplied(executed[i], DOMAIN executed[i].args \ {"config_entry_id"})
          /\ "config_entry_id" \in DOMAIN executed[i].args
                <=> options.music_assistant_config_entry # None
          /\ "config_entry_id" \in DOMAIN executed[i].args
                => executed[i].args["config_entry_id"] = options.music_assistant_config_entry

\* one turn with a search whose arguments name another entry and a key
\* outside the allow-list, under a configured entry, and a play_media
\* without entity_id, under a configured default player
C23_Witness ==
  \E i, j \in 1..Len(executed) :
     /\ executed[i].tool_name = MusicSearch
     /\ ToolCallOf(executed[i]).tool_args = JsonObjects[SearchArgsJson]
     /\ executed[i].args = [name |-> "x", limit |-> "5", config_entry_id |-> "01MA"]
     /\ executed[j].tool_name = MusicPlayMedia
     /\ ToolCallOf(executed[j]).tool_args = JsonObjects[SearchArgsJson]
     /\ executed[j].target = "media_player.office"

(***************************************************************************)
(* Properties of the message codec and of the history.                     *)
(***************************************************************************)
\* role and text of a wire message
ShapeOf(m) ==
  [role |-> m.role,
   text |-> IF m.role = "tool" \/ m.content = None THEN "" ELSE m.content]

\* the shapes the claim gives the messages of a history: one per
\* tool-result entry, one per assistant entry with text or tool calls, one
\* per plain entry with content, none for an entry of empty content
RECURSIVE ClaimedShapes(_)
ClaimedShapes(h) ==
  IF h = <<>> THEN <<>>
  ELSE (IF Head(h).role = "tool_result" THEN <<[role |-> "tool", text |-> ""]>>
        ELSE IF Truthy(Head(h).content)
        THEN <<[role |-> Head(h).role, text |-> Head(h).content]>>
        ELSE IF Head(h).tool_calls # <<>> THEN <<[role |-> "assistant", text |-> ""]>>
        ELSE <<>>)
       \o ClaimedShapes(Tail(h))

\* C24: the messages of a request are, after the system message, the
\* messages of the history entries in history order: one per tool-result
\* entry and per assistant entry with tool calls, none for a system, user
\* or assistant entry with empty content and no tool calls.
C24_CodecShape ==
  pc = "await" =>
    [j \in 1..Len(messages) - 1 |-> ShapeOf(messages[j + 1])] = ClaimedShapes(history)

\* C25: a tool result that json.dumps cannot encode does not fail the
\* turn: the next request is issued and the call does not raise because
\* of the result.
C25_NonSerializableCoerced ==
  ~JsonEncodable(history) => ~(pc = "raised" /\ raised = "TypeError")

\* the text of the last assistant entry of the history
FinalText ==
  LET n == MaxOf({i \in 1..Len(history) : history[i].role = "assistant"})
  IN IF Truthy(history[n].content) THEN history[n].content ELSE ""

\* C26: with a structure, _async_generate_data returns data only if the
\* final assistant text parses as JSON, and the parsed value; otherwise it
\* raises.  Without a structure it returns the final text as it is.
\* Without an assistant entry after the loop it raises.
C26_StructuredOutput ==
  (pc = "done" /\ task_result # NoTaskResult) =>
    IF \A i \in 1..Len(history) : history[i].role # "assistant"
    THEN task_result.kind = "error"
    ELSE IF structure = None
    THEN task_result = [kind |-> "text", data |-> FinalText]
    ELSE IF FinalText \in {"{}", "{\"a\":1}", "{\"name\":\"x\"}", "3"}
    THEN task_result = [kind |-> "json", data |-> FinalText]
    ELSE task_result.kind = "error"

\* a structured task whose final answer is no JSON, after a tool turn
C26_Witness ==
  /\ structure # None
  /\ pc = "done"
  /\ Len(executed) > 0
  /\ FinalText = "Done."
  /\ task_result = [kind |-> "error", data |-> "Structured response was not valid JSON"]

\* C27: the history is append-only within one call: every step leaves the
\* entries there are as they are and in place, and adds assistant and
\* tool-result entries only.
C27_AppendOnly ==
  [][/\ Len(history') >= Len(history)
     /\ SubSeq(history', 1, Len(history)) = history
     /\ \A n \in Len(history) + 1..Len(history') :
          history'[n].role \in {"assistant", "tool_result"}]_vars

\* a call that has appended two assistant entries and the results of a
\* music call and of a host tool call
C27_Witness ==
  /\ Len(history) >= base + 4
  /\ \E i, j \in base + 1..Len(history) :
       /\ i < j
       /\ history[i].role = "tool_result" /\ history[i].tool_name = MusicSearch
       /\ history[j].role = "tool_result" /\ history[j].tool_name = LightTurnOn

\* the assistant entries the call has appended
OwnAssistants == {n \in base + 1..Len(history) : history[n].role = "assistant"}

\* C28: once the dispatch of a turn is over, the entries after an assistant
\* entry with tool calls are the tool results of its calls, one per call
\* in the order of the calls, and the entry after them is no tool result;
\* a call of one tool turn and a final answer has issued 2 requests and
\* holds one tool-result entry between its two assistant entries.
C28_HistoryOrdering ==
  pc \in {"loop", "await", "done"} =>
    /\ \A n \in OwnAssistants :
         /\ Len(history) >= n + Len(history[n].tool_calls)
         /\ \A c \in 1..Len(history[n].tool_calls) :
              /\ history[n + c].role = "tool_result"
              /\ history[n + c].tool_call_id = history[n].tool_calls[c].id
         /\ Len(history) > n + Len(history[n].tool_calls)
              => history[n + Len(history[n].tool_calls) + 1].role # "tool_result"
    /\ (/\ pc = "done"
        /\ OwnAssistants = {base + 1, Len(history)}
        /\ Len(history[base + 1].tool_calls) = 1
        /\ history[Len(history)].tool_calls = <<>>)
       => (sends = 2 /\ Len(history) = base + 3)

\* C29: every request payload holds the configured model name, max_tokens,
\* temperature and top_p, and holds reasoning_effort only for a model of
\* the reasoning-capable family.
C29_PayloadShape ==
  sends > 0 =>
    /\ {"model", "messages", "max_tokens", "temperature", "top_p"} \subseteq DOMAIN payload
    /\ payload.model = (IF options.chat_model = None THEN RECOMMENDED_CHAT_MODEL
                        ELSE options.chat_model)
    /\ "reasoning_effort" \in DOMAIN payload => options.chat_model = ReasoningModel

(***************************************************************************)
(* Termination.                                                            *)
(***************************************************************************)
\* C30: when every request and every tool invocation completes, the call
\* ends, by returning an assistant turn or by raising, and it never
\* issues more than MAX_TOOL_ITERATIONS requests.
C30_Termination ==
  /\ <>(pc \in {"done", "raised"})
  /\ [](sends <= MAX_TOOL_ITERATIONS)

\* a call that ends when its budget is used up, every request answered by
\* a tool turn and every tool executed
C30_Witness ==
  /\ pc = "done"
  /\ returned # NoAssistant
  /\ iteration = MAX_TOOL_ITERATIONS
  /\ sends = iteration
  /\ Len(executed) >= sends

(***************************************************************************)
(* Properties of the returned turn and of the two response modes.          *)
(***************************************************************************)
\* C31: whenever the call returns an assistant turn (final answer, budget
\* used up, or llm_api absent), that turn is the last entry of the history
\* and carries no tool calls.
C31_ReturnedIsTail ==
  (pc = "done" /\ returned # NoAssistant) =>
    /\ history[Len(history)] = returned
    /\ returned.tool_calls = <<>>

\* the tool calls of the history handed in, and of the latest request, by
\* position
InitialCalls ==
  {p \in (1..base) \X (1..MaxCalls) : p[2] <= Len(history[p[1]].tool_calls)}
WireCalls ==
  {p \in (1..Len(messages)) \X (1..MaxCalls) : p[2] <= Len(messages[p[1]].tool_calls)}

\* the caller ids of the history handed in are strings, pairwise distinct
InitialIdsDistinct ==
  \A p, q \in InitialCalls :
    /\ history[p[1]].tool_calls[p[2]].id # None
    /\ p # q => history[p[1]].tool_calls[p[2]].id # history[q[1]].tool_calls[q[2]].id

\* C32: for a history handed in with pairwise distinct caller ids, in the
\* messages of every SEND distinct tool calls carry distinct ids and the
\* tool_call_id of every tool message is the id of exactly one assistant
\* tool call.
C32_WireIdsUnique ==
  (sends > 0 /\ InitialIdsDistinct) =>
    /\ \A p, q \in WireCalls :
         p # q => messages[p[1]].tool_calls[p[2]].id # messages[q[1]].tool_calls[q[2]].id
    /\ \A i \in 1..Len(messages) :
         messages[i].role = "tool" =>
           Cardinality({p \in WireCalls :
                          messages[p[1]].tool_calls[p[2]].id = messages[i].tool_call_id}) = 1

\* the fragments received after the last finish signal "tool_calls"
PendingFragments == Timeline(FinishBefore(Len(chunks) + 1) + 1, Len(chunks))

\* the number of calls the fragments of the first j finish signals describe
RECURSIVE SignalledCalls(_)
SignalledCalls(j) ==
  IF j = 0 THEN 0
  ELSE Cardinality(Indices(SegmentOf(j))) + SignalledCalls(j - 1)

\* the text of the chunks 1..n
RECURSIVE StreamText(_)
StreamText(n) ==
  IF n = 0 THEN ""
  ELSE StreamText(n - 1) \o
       (IF IsChunkObject(chunks[n]) /\ Truthy(ChoiceOf(n).delta.content)
        THEN ChoiceOf(n).delta.content ELSE "")

\* C33: when a stream ends (sentinel or end of input) with tool-call
\* fragments that no finish signal "tool_calls" followed, the turn holds no
\* tool call for them; when the stream had no such signal at all, no tool
\* is executed and the turn, text only, is appended and returned.
C33_FragmentsNeedFinishSignal ==
  [][(pc = "stream" /\ pc' \notin {"stream", "raised"} /\ PendingFragments # <<>>) =>
       /\ Len(assistant_content'.tool_calls) =
            SignalledCalls(Cardinality(FinishPositions))
       /\ FinishPositions = {} =>
            /\ history' = Append(history, AssistantContent(StreamText(Len(chunks)), <<>>))
            /\ returned' = AssistantContent(StreamText(Len(chunks)), <<>>)
            /\ pc' = "done"
            /\ executed' = executed]_vars

\* a stream of text, a fragment and the finish reason "stop", ended by the
\* sentinel: the text is the final answer
C33_Witness ==
  /\ pc = "done"
  /\ FinishPositions = {}
  /\ PendingFragments # <<>>
  /\ \E n \in 1..Len(chunks) : ChoiceOf(n).finish_reason = "stop"
  /\ seen[Len(seen)] = DataPrefix \o DoneSentinel
  /\ returned = AssistantContent("Hi", <<>>)
  /\ history[Len(history)] = returned
  /\ executed = <<>>

\* the dispatch of a turn with music calls and other calls is over
MixedTurnDispatched ==
  /\ pc \in {"loop", "done"}
  /\ MusicOf(assistant_content.tool_calls) # <<>>
  /\ StandardOf(assistant_content.tool_calls) # <<>>

\* the entries lo + 1 .. lo + Len(calls) of the history are the tool
\* results of calls, in order
ResultsFollow(lo, calls) ==
  \A c \in 1..Len(calls) :
    /\ history[lo + c].role = "tool_result"
    /\ history[lo + c].tool_call_id = calls[c].id

\* C34: a turn with music calls and other calls is appended as two
\* assistant entries, the music calls with their results first and the
\* other calls with theirs after; every call of the turn is in exactly one
\* of the two entries, the text of the turn in exactly one, and every music
\* call of the turn is executed before any other call of it.
C34_MixedTurnSplit ==
  MixedTurnDispatched =>
    LET ac == assistant_content
        m == Cardinality({j \in 1..Len(ac.tool_calls) :
                            StartsWithMusicAssistant(ac.tool_calls[j].tool_name)})
        s == Len(ac.tool_calls) - m
        n1 == Len(history) - (m + s + 1)
        n2 == n1 + m + 1
    IN /\ n1 > base
       /\ history[n1].role = "assistant" /\ history[n2].role = "assistant"
       /\ Len(history[n1].tool_calls) = m /\ Len(history[n2].tool_calls) = s
       /\ \A c \in 1..m : StartsWithMusicAssistant(history[n1].tool_calls[c].tool_name)
       /\ \A c \in 1..s : ~StartsWithMusicAssistant(history[n2].tool_calls[c].tool_name)
       /\ ResultsFollow(n1, history[n1].tool_calls)
       /\ ResultsFollow(n2, history[n2].tool_calls)
       /\ \A j \in 1..Len(ac.tool_calls) :
            Cardinality({e \in {n1, n2} :
                           \E c \in 1..Len(history[e].tool_calls) :
                             history[e].tool_calls[c] = ac.tool_calls[j]}) = 1
       /\ Truthy(ac.content) =>
            Cardinality({e \in {n1, n2} : history[e].content = ac.content}) = 1
       /\ \A a, b \in ExecutedNow :
            (a < b /\ executed[a].dest = "llm_api") => executed[b].dest = "llm_api"

\* the turn the streaming branch builds from the response that the
\* blocking branch received as message m, under the id map as it is
StreamedTurnOf(m) ==
  LET t == Turn(IF m.content = None THEN "" ELSE m.content, m.tool_calls,
                IF m.tool_calls = <<>> THEN "stop" ELSE "tool_calls")
      ts == TransformStream(StreamOf(t), id_map)
  IN AssistantContent(AccumulateText(ts.deltas), AccumulateToolCalls(ts.deltas))

\* two turns with the same text and the same tool calls (names, arguments,
\* order), the ids of the one a renaming of the ids of the other
SameUpToIds(a, b) ==
  /\ a.content = b.content
  /\ Len(a.tool_calls) = Len(b.tool_calls)
  /\ \A i \in 1..Len(a.tool_calls) :
       /\ a.tool_calls[i].tool_name = b.tool_calls[i].tool_name
       /\ a.tool_calls[i].tool_args = b.tool_calls[i].tool_args
       /\ \A j \in 1..Len(a.tool_calls) :
            (a.tool_calls[i].id = a.tool_calls[j].id)
              <=> (b.tool_calls[i].id = b.tool_calls[j].id)

\* C35: the two modes cannot be told apart: on the first response of a
\* call, up to which both modes have done the same, the blocking branch
\* raises nothing and builds the turn that the streaming branch builds from
\* the same response, up to the renaming of the tool-call ids; so the runs
\* append the same entries, dispatch the same calls and return the same
\* text.
C35_ModesEquivalent ==
  [][(pc = "await" /\ ~use_streaming /\ sends = 1 /\ status' = StatusOk) =>
       /\ pc' # "raised"
       /\ SameUpToIds(assistant_content', StreamedTurnOf(msg'))]_vars

====
